---- MODULE Spec2Model ----
(***************************************************************************)
(* Model of the remote WebDriver client of go-selenium (remote.go): the    *)
(* reply envelope and its decoding, the error table, URL templating, the   *)
(* HTTP exchange of execute with its redirects, the session lifecycle     *)
(* (NewRemote, NewSession, Quit), the generic command helpers, and the     *)
(* commands of the session and of the elements found in it.                *)
(*                                                                         *)
(* Conventions.                                                            *)
(*  - A Go string that is formatted or compared piecewise (URLs, path      *)
(*    templates, session ids) is a sequence of tokens; a "%" is always a   *)
(*    token of its own and the verb letter after it too, so that a string  *)
(*    produced by one fmt.Sprintf can be parsed again by the next.         *)
(*  - A Go error is a record [type, msg]; the nil error is NoErr.          *)
(*  - A response body is a record describing the bytes: what the bytes are *)
(*    as JSON text.  execute hands the bytes back unchanged, decoding is   *)
(*    done by the Unmarshal operators.                                     *)
(***************************************************************************)
EXTENDS Integers, Sequences, FiniteSets, TLC

VARIABLES
    wd,      \* the remoteWD the caller holds (exists = FALSE: none yet / nil)
    last,    \* the last completed call: operation, request, response, result
    opened,  \* history: a session-open exchange succeeded and no Quit since
    we,      \* the remoteWE the caller holds (exists = FALSE: none yet)
    Trace,   \* var Trace bool, the package's trace flag
    wd2,     \* the remoteWD a second caller holds
    calls,   \* the call each of the two callers has in progress, if any
    run,     \* the execute call that is in progress hop by hop, if any
    born     \* history: the session id stored in the client when we was decoded

vars == <<wd, last, opened, we, Trace, wd2, calls, run, born>>

\* what the steps of one caller on one client, taken call by call, leave alone
aside == <<Trace, wd2, calls, run, born>>

(***************************************************************************)
(* Bounds                                                                  *)
(***************************************************************************)
MaxStatus == 33     \* envelope status codes 0..MaxStatus are drawn
MaxChain == 12      \* a server redirects 0..MaxChain times before it answers
MaxElem == 1        \* the server names elements e1..eMaxElem
MaxSid == 2         \* session ids "1".."MaxSid" are drawn

(***************************************************************************)
(* Program constants                                                       *)
(***************************************************************************)
SUCCESS == 0
jsonMIMEType == <<"application/json">>
DEFAULT_EXECUTOR == <<"http://127.0.0.1:4444/wd/hub">>

(***************************************************************************)
(* Errors                                                                  *)
(***************************************************************************)
NoErr == [type |-> "nil", msg |-> ""]
NewError(m) == [type |-> "errorString", msg |-> m]
SyntaxError(m) == [type |-> "json.SyntaxError", msg |-> m]
UnmarshalTypeError(m) == [type |-> "json.UnmarshalTypeError", msg |-> m]
UnsupportedTypeError(m) == [type |-> "json.UnsupportedTypeError", msg |-> m]
URLError(m) == [type |-> "url.Error", msg |-> m]

errorCodes ==
    [c \in {7, 8, 9, 10, 11, 12, 13, 15, 17, 19, 21, 23, 24, 25, 26, 27, 28, 29, 32} |->
        CASE c = 7 -> "no such element"
          [] c = 8 -> "no such frame"
          [] c = 9 -> "unknown command"
          [] c = 10 -> "stale element reference"
          [] c = 11 -> "element not visible"
          [] c = 12 -> "invalid element state"
          [] c = 13 -> "unknown error"
          [] c = 15 -> "element is not selectable"
          [] c = 17 -> "javascript error"
          [] c = 19 -> "xpath lookup error"
          [] c = 21 -> "timeout"
          [] c = 23 -> "no such window"
          [] c = 24 -> "invalid cookie domain"
          [] c = 25 -> "unable to set cookie"
          [] c = 26 -> "unexpected alert open"
          [] c = 27 -> "no alert open"
          [] c = 28 -> "script timeout"
          [] c = 29 -> "invalid element coordinates"
          [] c = 32 -> "invalid selector"]

\* statusError with the code left out of the message for an unknown code
statusErrorDropsCode(status) ==
    IF status \in DOMAIN errorCodes
    THEN NewError(errorCodes[status])
    ELSE NewError("unknown error")

\* message, ok := errorCodes[status]; if !ok { message = "unknown error - %d" }
\* return nil, errors.New(message)
statusError(status) ==
    IF status \in DOMAIN errorCodes
    THEN NewError(errorCodes[status])
    ELSE NewError("unknown error - " \o ToString(status))

(***************************************************************************)
(* JSON text of a reply body                                               *)
(***************************************************************************)
JAbsent == [t |-> "absent"]
JNull == [t |-> "null"]
JStr(s) == [t |-> "str", s |-> s]
JNum(n) == [t |-> "num", n |-> n]

EmptyBody == [k |-> "empty"]        \* zero bytes
InvalidBody == [k |-> "invalid"]    \* bytes that are not JSON (an HTML page)
NullBody == [k |-> "null"]          \* the JSON literal null
ObjectBody(sid, st, v) == [k |-> "object", sessionId |-> sid, status |-> st, value |-> v]

bodyLen(buf) == IF buf.k = "empty" THEN 0 ELSE 1   \* len(buf) > 0 or not

\* the zero serverReply
zeroReply == [SessionId |-> <<>>, Status |-> 0, Value |-> JAbsent]

\* encoding/json into a string field / an int field / a RawMessage field
stringField(j) == IF j.t = "str" THEN j.s ELSE <<>>
intField(j) == IF j.t = "num" THEN j.n ELSE 0
fieldsOf(buf) ==
    [SessionId |-> stringField(buf.sessionId),
     Status |-> intField(buf.status),
     Value |-> buf.value]
fieldMismatch(buf) == buf.sessionId.t = "num" \/ buf.status.t = "str"

\* json.Unmarshal(buf, reply) with reply := new(serverReply)
UnmarshalReply(buf) ==
    CASE buf.k = "empty" ->
            [err |-> SyntaxError("unexpected end of JSON input"), reply |-> zeroReply]
      [] buf.k = "invalid" ->
            [err |-> SyntaxError("invalid character"), reply |-> zeroReply]
      [] buf.k = "null" ->
            [err |-> NoErr, reply |-> zeroReply]
      [] buf.k = "scalar" ->
            [err |-> UnmarshalTypeError("cannot unmarshal into Go value of type selenium.serverReply"),
             reply |-> zeroReply]
      [] buf.k = "object" ->
            [err |-> IF fieldMismatch(buf)
                     THEN UnmarshalTypeError("cannot unmarshal into Go struct field")
                     ELSE NoErr,
             reply |-> fieldsOf(buf)]


\* json.Unmarshal(buf, &r) with var r *reply: the JSON null leaves the pointer
\* nil, anything else allocates the struct before decoding into it.
NilReply == [nil |-> TRUE, SessionId |-> <<>>, Status |-> 0, Value |-> JAbsent]
replyPtr(buf, u) ==
    IF buf.k \in {"empty", "invalid", "null"}
    THEN [err |-> u.err, r |-> NilReply]
    ELSE [err |-> u.err,
          r |-> [nil |-> FALSE, SessionId |-> u.reply.SessionId,
                 Status |-> u.reply.Status, Value |-> u.reply.Value]]
UnmarshalReplyPtr(buf) == replyPtr(buf, UnmarshalReply(buf))

(***************************************************************************)
(* fmt.Sprintf over token strings, string arguments only                   *)
(***************************************************************************)
RECURSIVE extraArgs(_)
extraArgs(args) ==
    IF Len(args) = 1
    THEN <<"string=">> \o Head(args)
    ELSE <<"string=">> \o Head(args) \o <<", ">> \o extraArgs(Tail(args))

RECURSIVE Sprintf(_, _)
Sprintf(format, args) ==
    IF format = <<>>
    THEN IF args = <<>> THEN <<>> ELSE <<"%", "!", "(EXTRA ">> \o extraArgs(args) \o <<")">>
    ELSE IF Head(format) # "%"
    THEN <<Head(format)>> \o Sprintf(Tail(format), args)
    ELSE IF Len(format) = 1
    THEN <<"%", "!", "(NOVERB)">> \o Sprintf(<<>>, args)
    ELSE LET verb == format[2]
             rest == SubSeq(format, 3, Len(format))
         IN  IF verb = "%"
             THEN <<"%">> \o Sprintf(rest, args)
             ELSE IF args = <<>>
             THEN <<"%", "!", verb, "(MISSING)">> \o Sprintf(rest, args)
             ELSE IF verb \in {"s", "v"}
             THEN Head(args) \o Sprintf(rest, Tail(args))
             ELSE <<"%", "!", verb, "(string=">> \o Head(args) \o <<")">>
                      \o Sprintf(rest, Tail(args))

\* func (wd *remoteWD) url(template string, args ...interface{}) string
url(w, template, args) == w.executor \o Sprintf(template, args)

\* strings.HasPrefix
HasPrefix(s, prefix) ==
    Len(s) >= Len(prefix) /\ SubSeq(s, 1, Len(prefix)) = prefix

(***************************************************************************)
(* The HTTP exchange                                                       *)
(***************************************************************************)
NoData == [k |-> "nil"]       \* a nil []byte
NilBuf == [k |-> "nil"]
\* a request: a header is the list of the values added under its name; hop is
\* 0 for the request execute builds and k for the k-th redirect that follows it
NoReq ==
    [sent |-> FALSE, method |-> "", url |-> <<>>, data |-> NoData,
     Accept |-> <<>>, ContentType |-> <<>>, hop |-> 0]
NoRes == [got |-> FALSE, StatusCode |-> 0, Status |-> "", ContentType |-> <<>>, Body |-> NilBuf]

\* url.Parse inside http.NewRequest: a "%" that is not followed by two hex
\* digits (one token, or two tokens of one digit each) is an invalid URL
\* escape
badEscape(u) ==
    \E i \in 1..Len(u) :
        /\ u[i] = "%"
        /\ (i = Len(u) \/ u[i + 1] \notin {"20", "25", "2F"})
        /\ ~(/\ i + 2 <= Len(u)
              /\ u[i + 1] \in {"a", "b", "c", "d", "e", "f", "1", "2"}
              /\ u[i + 2] \in {"a", "b", "c", "d", "e", "f", "1", "2"})

\* url.Parse inside http.NewRequest: the port of the host is digits up to
\* the first slash, so a base URL that ends in its port ("http://h:4444")
\* followed by a path that does not begin with a slash ("session/") has an
\* invalid port
badPort(u) ==
    Len(u) >= 2 /\ u[1] \in {"http://h:4444"} /\ u[2] \in {"session/"}

\* url.Parse inside http.NewRequest: a URL whose first character is a colon
\* has no protocol scheme and is rejected, and so are an invalid escape and
\* an invalid port
parseFails(u) == (u # <<>> /\ Head(u) = ":") \/ badEscape(u) \/ badPort(u)

\* the error http.NewRequest returns for a URL that parseFails
parseError(u) ==
    IF u # <<>> /\ Head(u) = ":"
    THEN URLError("missing protocol scheme")
    ELSE IF badEscape(u)
    THEN URLError("invalid URL escape")
    ELSE URLError("invalid port after host")

reasonPhrase(code) ==
    CASE code = 200 -> "OK"
      [] code = 400 -> "Bad Request"
      [] code = 404 -> "Not Found"
      [] code = 500 -> "Internal Server Error"
      [] OTHER -> ""

\* what the server side of one exchange does: srv.fail is "connect" when no
\* response arrives, "read" when the body cannot be read, "none" otherwise
response(srv) ==
    [got |-> TRUE, StatusCode |-> srv.code,
     Status |-> ToString(srv.code) \o " " \o reasonPhrase(srv.code),
     ContentType |-> srv.ctype, Body |-> srv.body]


\* the result of execute together with the request that went out and the
\* response that came in; reqs are the requests put on the wire, in order
execResult(buf, err, req, res, reqs) ==
    [buf |-> buf, err |-> err, req |-> req, res |-> res, reqs |-> reqs]

\* execute, lines 170-178: the error for a reply with status >= 400, reply
\* being what json.Unmarshal(buf, reply) gave
badStatusError(res, reply) ==
    IF reply.err # NoErr
    THEN NewError("Bad server reply status: " \o res.Status)
    ELSE statusError(reply.reply.Status)

\* badStatusReply that looks up the status although the body did not decode
badStatusReplyIgnoresDecodeError(res, buf) ==
    [buf |-> NilBuf, err |-> statusError(UnmarshalReply(buf).reply.Status)]

\* execute, the branch for res.StatusCode >= 400
badStatusReply(res, buf) ==
    [buf |-> NilBuf, err |-> badStatusError(res, UnmarshalReply(buf))]

\* execute, the test strings.HasPrefix(res.Header.Get("Content-Type"), jsonMIMEType)
hasJSONContentType(res) == HasPrefix(res.ContentType, jsonMIMEType)

\* execute, lines 187-199: the outcome for a JSON content type, reply being
\* what json.Unmarshal(buf, reply) gave
envelopeChecked(buf, reply) ==
    IF reply.err # NoErr
    THEN [buf |-> NilBuf, err |-> reply.err]
    ELSE IF reply.reply.Status # SUCCESS
    THEN [buf |-> NilBuf, err |-> statusError(reply.reply.Status)]
    ELSE [buf |-> buf, err |-> reply.err]

\* jsonReply that does not look at the envelope status
jsonReplySkipsStatus(buf) ==
    IF UnmarshalReply(buf).err # NoErr
    THEN [buf |-> NilBuf, err |-> UnmarshalReply(buf).err]
    ELSE [buf |-> buf, err |-> NoErr]

\* execute, the branch for a JSON content type
jsonReply(buf) == envelopeChecked(buf, UnmarshalReply(buf))

\* rawReply that decodes the body as an envelope all the same
rawReplyInspectsBody(buf) ==
    IF UnmarshalReply(buf).err = NoErr /\ UnmarshalReply(buf).reply.Status # SUCCESS
    THEN [buf |-> NilBuf, err |-> statusError(UnmarshalReply(buf).reply.Status)]
    ELSE [buf |-> buf, err |-> NoErr]

\* execute, the final return: "Nothing was returned, this is OK for some commands"
rawReply(buf) == [buf |-> buf, err |-> NoErr]

\* execute from line 167 on: the three ways a response that was read is handled
handled(res) ==
    IF res.StatusCode >= 400
    THEN badStatusReply(res, res.Body)
    ELSE IF hasJSONContentType(res)
    THEN jsonReply(res.Body)
    ELSE rawReply(res.Body)

\* execute from line 161 on: ioutil.ReadAll(res.Body), then the handling
bodyRead(req, res, srv, out, via) ==
    IF srv.fail = "read"
    THEN execResult(NilBuf, NewError("unexpected EOF"), req, res, via)
    ELSE execResult(out.buf, out.err, req, res, via)

\* the number of earlier requests at which CheckRedirect refuses the next
maxRedirects == 10

\* CheckRedirect that lets one more redirect through
CheckRedirectOffByOne(req, via) ==
    IF Len(via) > maxRedirects
    THEN [err |-> NewError("stopped after 10 redirects"), req |-> req]
    ELSE [err |-> NoErr, req |-> [req EXCEPT !.Accept = Append(@, jsonMIMEType)]]

\* CheckRedirect that leaves the header of the redirect request alone
CheckRedirectNoAccept(req, via) ==
    IF Len(via) >= maxRedirects
    THEN [err |-> NewError("stopped after 10 redirects"), req |-> req]
    ELSE [err |-> NoErr, req |-> req]

\* CheckRedirect that refuses no redirect
CheckRedirectNever(req, via) ==
    [err |-> NoErr, req |-> [req EXCEPT !.Accept = Append(@, jsonMIMEType)]]

\* httpClient.CheckRedirect, lines 117-123: req is the request about to be
\* made, via the requests made already, oldest first
CheckRedirect(req, via) ==
    IF Len(via) >= maxRedirects
    THEN [err |-> NewError("stopped after 10 redirects"), req |-> req]
    ELSE [err |-> NoErr, req |-> [req EXCEPT !.Accept = Append(@, jsonMIMEType)]]

\* the request net/http builds for the k-th redirect of an exchange: a GET of
\* the Location the server named.  Its header is empty ("by default net/http
\* will not include that header when following redirects") or, with a
\* net/http that copies the headers of the first request, a copy of them.
redirectRequest(first, k, srv) ==
    [sent |-> TRUE, method |-> "GET",
     url |-> <<"http://h:4444", "/moved/", ToString(k)>>, data |-> NoData,
     Accept |-> IF srv.copy THEN first.Accept ELSE <<>>,
     ContentType |-> <<>>, hop |-> k]

\* the redirect loop of httpClient.Do: via are the requests made so far; the
\* server answers the first srv.redirects of them with a redirect, and the
\* request for the next hop goes out when CheckRedirect returns nil
RECURSIVE follow(_, _)
follow(via, srv) ==
    IF Len(via) > srv.redirects
    THEN [err |-> NoErr, via |-> via]
    ELSE IF CheckRedirect(redirectRequest(via[1], Len(via), srv), via).err # NoErr
    THEN [err |-> URLError(CheckRedirect(redirectRequest(via[1], Len(via), srv), via).err.msg),
          via |-> via]
    ELSE follow(Append(via, CheckRedirect(redirectRequest(via[1], Len(via), srv), via).req),
                srv)

\* httpClient.Do(req), line 150
Do(req, srv) ==
    IF srv.fail = "connect"
    THEN [err |-> URLError("connection refused"), via |-> <<req>>]
    ELSE follow(<<req>>, srv)

\* execute from line 150 on: httpClient.Do(req) and what follows, d being
\* what Do gave
roundTrip(req, srv, res, d) ==
    IF d.err # NoErr
    THEN execResult(NilBuf, d.err, req, NoRes, d.via)
    ELSE bodyRead(req, res, srv, handled(res), d.via)

\* execute, lines 138-142: http.NewRequest and the Accept header; no other
\* header is set
newRequest(method, u, data) ==
    [sent |-> TRUE, method |-> method, url |-> u, data |-> data,
     Accept |-> <<jsonMIMEType>>, ContentType |-> <<>>, hop |-> 0]

\* ioutil.ReadAll(b) of a body b: data are the bytes behind it, fail tells
\* that reading them breaks off (the error stays with the body), read that
\* they were read to the end already
ReadAll(b) ==
    IF b.fail
    THEN [buf |-> NilBuf, err |-> NewError("unexpected EOF")]
    ELSE [buf |-> IF b.read THEN EmptyBody ELSE b.data, err |-> NoErr]

\* drainBody that hands back the body it has read to the end
drainBodyConsumes(b) == [b EXCEPT !.read = TRUE]

\* drainBody of net/http/httputil, which DumpRequest and DumpResponse call
\* for body = true: the body is read to the end and a fresh reader of the
\* bytes read is left in its place; a body that fails to read is left as it is
drainBody(b) ==
    IF ReadAll(b).err # NoErr
    THEN b
    ELSE [data |-> ReadAll(b).buf, fail |-> FALSE, read |-> FALSE]

\* execute, lines 144-148: the request after httputil.DumpRequest(req, true)
DumpRequest(req) ==
    [req EXCEPT !.data = ReadAll(drainBody([data |-> @, fail |-> FALSE, read |-> FALSE])).buf]

\* execute, lines 155-159: the response after httputil.DumpResponse(res, true);
\* Body is what ioutil.ReadAll will find in it
DumpResponse(res, srv) ==
    IF srv.fail = "read"
    THEN res
    ELSE [res EXCEPT !.Body = ReadAll(drainBody([data |-> @, fail |-> FALSE, read |-> FALSE])).buf]

\* execute from line 143 on, req being the request that was built and trace
\* the value of Trace
requested(trace, req, srv) ==
    roundTrip(IF trace THEN DumpRequest(req) ELSE req, srv,
              IF trace THEN DumpResponse(response(srv), srv) ELSE response(srv),
              Do(IF trace THEN DumpRequest(req) ELSE req, srv))

\* func (wd *remoteWD) execute(method, url string, data []byte) ([]byte, error)
execute(method, u, data, srv) ==
    IF parseFails(u)
    THEN execResult(NilBuf, parseError(u), NoReq, NoRes, <<>>)
    ELSE requested(Trace, newRequest(method, u, data), srv)

\* send, line 130: err = json.Unmarshal(buf, &r), p being its outcome
replyDecoded(e, p) ==
    [r |-> p.r, err |-> p.err, req |-> e.req, res |-> e.res, reqs |-> e.reqs]

\* send, lines 128-133, e being what execute returned
executeDone(e) ==
    IF e.err = NoErr
    THEN IF bodyLen(e.buf) > 0
         THEN replyDecoded(e, UnmarshalReplyPtr(e.buf))
         ELSE [r |-> NilReply, err |-> NoErr, req |-> e.req, res |-> e.res,
               reqs |-> e.reqs]
    ELSE [r |-> NilReply, err |-> e.err, req |-> e.req, res |-> e.res, reqs |-> e.reqs]

\* func (wd *remoteWD) send(method, url string, data []byte) (r *reply, err error)
send(method, u, data, srv) == executeDone(execute(method, u, data, srv))

(***************************************************************************)
(* encoding/json of request parameters                                     *)
(***************************************************************************)
\* a value json.Marshal rejects (a func or a chan put into the map)
JFunc == [t |-> "func"]

\* a Go number held in an interface{}: type is "int" or "float64"
GoNum(type, n) == [t |-> "go", type |-> type, n |-> n]

\* json.Marshal of a value held in an interface{}: a Go number of either type
\* is written as the JSON number; string, bool and nil as themselves
marshalValue(v) == IF v.t = "go" THEN JNum(v.n) ELSE v

\* json.Unmarshal of a JSON value into an interface{}: every JSON number
\* becomes a float64; string, bool and null as themselves
decodeValue(j) == IF j.t = "num" THEN GoNum("float64", j.n) ELSE j

\* a JSON object as the member of a body, m its members by name
JMap(m) == [t |-> "map", m |-> m]

\* json.Marshal(message) for message = {"desiredCapabilities": capabilities}
marshalMessage(capabilities) ==
    IF \E key \in DOMAIN capabilities : capabilities[key] = JFunc
    THEN [err |-> UnsupportedTypeError("json: unsupported type"), data |-> NoData]
    ELSE [err |-> NoErr,
          data |-> [k |-> "object",
                    desiredCapabilities |->
                        [key \in DOMAIN capabilities |-> marshalValue(capabilities[key])]]]

(***************************************************************************)
(* The client: type remoteWD struct { id, executor string; capabilities }  *)
(***************************************************************************)
remoteWD(id, executor, capabilities) ==
    [exists |-> TRUE, id |-> id, executor |-> executor, capabilities |-> capabilities]

NoClient ==
    [exists |-> FALSE, id |-> <<>>, executor |-> <<>>, capabilities |-> [browserName |-> JAbsent]]

\* what NewSession hands back, with the request and response of its exchange
\* and the err that send returned
sessionResult(w, sessionId, err, panic, s) ==
    [wd |-> w, sessionId |-> sessionId, err |-> err, panic |-> panic,
     sendErr |-> s.err, req |-> s.req, res |-> s.res, reqs |-> s.reqs]

\* NewSession, lines 299-303.  The err that send returns is declared by the :=
\* of the if statement and is a different variable from the named result err,
\* which keeps the value the json.Marshal line gave it.
sessionStored(w, err, s) ==
    IF s.err = NoErr
    THEN IF s.r.nil
         THEN sessionResult(w, <<>>, err, TRUE, s)
         ELSE sessionResult([w EXCEPT !.id = s.r.SessionId], s.r.SessionId, err, FALSE, s)
    ELSE sessionResult(w, <<>>, err, FALSE, s)

\* NewSession, lines 295-299
marshalled(w, m, srv) ==
    IF m.err # NoErr
    THEN [wd |-> w, sessionId |-> <<>>, err |-> m.err, panic |-> FALSE,
          sendErr |-> NoErr, req |-> NoReq, res |-> NoRes, reqs |-> <<>>]
    ELSE sessionStored(w, m.err, send("POST", url(w, <<"/session">>, <<>>), m.data, srv))

\* NewSession that first ends the session the client holds
NewSessionQuitsFirst(w, srv) ==
    [marshalled(w, marshalMessage(w.capabilities), srv)
        EXCEPT !.reqs = (IF w.id # <<>>
                         THEN execute("DELETE", url(w, <<"/session/", "%", "s">>, <<w.id>>),
                                      NoData, srv).reqs
                         ELSE <<>>) \o @]

\* func (wd *remoteWD) NewSession() (sessionId string, err error)
NewSession(w, srv) == marshalled(w, marshalMessage(w.capabilities), srv)

\* NewRemote, lines 219-224, n being what wd.NewSession() gave
driverOrError(n) ==
    [ret |-> IF n.panic \/ n.err # NoErr THEN NoClient ELSE n.wd,
     err |-> IF n.panic THEN NoErr ELSE n.err,
     panic |-> n.panic, sendErr |-> n.sendErr, req |-> n.req, res |-> n.res,
     reqs |-> n.reqs]

\* func NewRemote(capabilities Capabilities, executor string) (WebDriver, error)
NewRemote(capabilities, executor, srv) ==
    driverOrError(
        NewSession(remoteWD(<<>>,
                            IF executor = <<>> THEN DEFAULT_EXECUTOR ELSE executor,
                            capabilities),
                   srv))

\* a command that returns only the error of its exchange
commandDone(w, e) ==
    [wd |-> w, ret |-> <<>>, err |-> e.err, panic |-> FALSE,
     req |-> e.req, res |-> e.res, reqs |-> e.reqs]

\* Quit, lines 378-382
quitDone(w, e) ==
    commandDone(IF e.err = NoErr THEN [w EXCEPT !.id = <<>>] ELSE w, e)

\* Quit that clears the session id whatever the exchange gave
QuitAlwaysClears(w, srv) ==
    commandDone([w EXCEPT !.id = <<>>],
                execute("DELETE", url(w, <<"/session/", "%", "s">>, <<w.id>>), NoData, srv))

\* Quit that never clears the session id
QuitKeepsId(w, srv) ==
    commandDone(w,
                execute("DELETE", url(w, <<"/session/", "%", "s">>, <<w.id>>), NoData, srv))

\* func (wd *remoteWD) Quit() error
Quit(w, srv) ==
    quitDone(w, execute("DELETE", url(w, <<"/session/", "%", "s">>, <<w.id>>), NoData, srv))

\* voidCommand that forgets the session once the request is made
voidCommandForgets(w, urlTemplate, data, srv) ==
    commandDone([w EXCEPT !.id = <<>>],
                execute("POST", url(w, urlTemplate, <<w.id>>), data, srv))

\* func (wd *remoteWD) voidCommand(urlTemplate string, data []byte) error
voidCommand(w, urlTemplate, data, srv) ==
    commandDone(w, execute("POST", url(w, urlTemplate, <<w.id>>), data, srv))

\* func (wd *remoteWD) Refresh() error
Refresh(w, srv) == voidCommand(w, <<"/session/", "%", "s", "/refresh">>, NoData, srv)

\* func (wd *remoteWD) Close() error
Close(w, srv) ==
    commandDone(w,
                execute("DELETE", url(w, <<"/session/", "%", "s", "/window">>, <<w.id>>),
                        NoData, srv))

\* json.Unmarshal(res, reply) with reply := new(stringReply), Value *string
UnmarshalStringReply(buf) ==
    CASE buf.k = "empty" ->
            [err |-> SyntaxError("unexpected end of JSON input"), nil |-> TRUE, Value |-> <<>>]
      [] buf.k = "invalid" ->
            [err |-> SyntaxError("invalid character"), nil |-> TRUE, Value |-> <<>>]
      [] buf.k = "null" ->
            [err |-> NoErr, nil |-> TRUE, Value |-> <<>>]
      [] buf.k = "scalar" ->
            [err |-> UnmarshalTypeError("cannot unmarshal into Go value of type selenium.stringReply"),
             nil |-> TRUE, Value |-> <<>>]
      [] buf.k = "object" ->
            CASE buf.value.t = "str" -> [err |-> NoErr, nil |-> FALSE, Value |-> buf.value.s]
              [] buf.value.t \in {"num", "bool", "arr", "obj"} ->
                    [err |-> UnmarshalTypeError("cannot unmarshal into Go struct field"),
                     nil |-> FALSE, Value |-> <<>>]
              [] OTHER -> [err |-> NoErr, nil |-> TRUE, Value |-> <<>>]

\* what a command with a value hands back
valueDone(w, ret, err, panic, e) ==
    [wd |-> w, ret |-> ret, err |-> err, panic |-> panic, req |-> e.req, res |-> e.res,
     reqs |-> e.reqs]

\* stringCommand that returns the zero string where it has a value
stringValueDropped(w, e, reply) ==
    IF reply.err # NoErr
    THEN valueDone(w, <<>>, reply.err, FALSE, e)
    ELSE valueDone(w, <<>>, NoErr, reply.nil, e)

\* stringCommand, lines 236-240; *reply.Value panics on a nil pointer
stringValue(w, e, reply) ==
    IF reply.err # NoErr
    THEN valueDone(w, <<>>, reply.err, FALSE, e)
    ELSE IF reply.nil
    THEN valueDone(w, <<>>, NoErr, TRUE, e)
    ELSE valueDone(w, reply.Value, NoErr, FALSE, e)

\* stringCommand, lines 230-235, e being what execute returned
stringDecoded(w, e) ==
    IF e.err # NoErr
    THEN valueDone(w, <<>>, e.err, FALSE, e)
    ELSE stringValue(w, e, UnmarshalStringReply(e.buf))

\* stringCommand that refuses to run without a session
stringCommandChecksSession(w, urlTemplate, srv) ==
    IF w.id = <<>>
    THEN [wd |-> w, ret |-> <<>>, err |-> NewError("no session"), panic |-> FALSE,
          req |-> NoReq, res |-> NoRes, reqs |-> <<>>]
    ELSE stringDecoded(w, execute("GET", url(w, urlTemplate, <<w.id>>), NoData, srv))

\* func (wd *remoteWD) stringCommand(urlTemplate string) (string, error)
stringCommand(w, urlTemplate, srv) ==
    stringDecoded(w, execute("GET", url(w, urlTemplate, <<w.id>>), NoData, srv))

\* func (wd *remoteWD) Title() (string, error)
Title(w, srv) == stringCommand(w, <<"/session/", "%", "s", "/title">>, srv)

(***************************************************************************)
(* Typed replies: json.Unmarshal of a body into the reply structs          *)
(***************************************************************************)
JBool(b) == [t |-> "bool", b |-> b]
JArr(a) == [t |-> "arr", a |-> a]
\* a JSON object, of whose members only ELEMENT is told
JObj(element) == [t |-> "obj", ELEMENT |-> element]

\* the value member of a body, absent when the body is not an object
valueOf(buf) == IF buf.k = "object" THEN buf.value ELSE JAbsent

\* json.Unmarshal into a struct: what the body as a whole makes of it.  The
\* JSON null is accepted and leaves the struct as it is.
structError(buf) ==
    CASE buf.k = "empty" -> SyntaxError("unexpected end of JSON input")
      [] buf.k = "invalid" -> SyntaxError("invalid character")
      [] buf.k = "scalar" -> UnmarshalTypeError("cannot unmarshal into Go value")
      [] OTHER -> NoErr

\* the error of decoding a body whose value member mismatches the field
replyError(buf, mismatch) ==
    IF structError(buf) # NoErr THEN structError(buf)
    ELSE IF mismatch THEN UnmarshalTypeError("cannot unmarshal into Go struct field")
    ELSE NoErr

\* json.Unmarshal(res, reply) with reply := new(boolReply), Value bool: a
\* missing or null value leaves the field false
UnmarshalBoolReply(buf) ==
    [err |-> replyError(buf, valueOf(buf).t \notin {"bool", "absent", "null"}),
     Value |-> JBool(IF valueOf(buf).t = "bool" THEN valueOf(buf).b ELSE FALSE)]

\* json.Unmarshal(res, reply) with reply := new(stringsReply), Value []string
allStrings(j) == j.t = "arr" /\ \A i \in 1..Len(j.a) : j.a[i].t = "str"
UnmarshalStringsReply(buf) ==
    [err |-> replyError(buf, valueOf(buf).t \notin {"absent", "null"}
                             /\ ~allStrings(valueOf(buf))),
     Value |-> IF allStrings(valueOf(buf)) THEN valueOf(buf) ELSE JNull]

\* json.Unmarshal(res, reply) with reply := new(anyReply), Value interface{}:
\* every JSON value fits, a missing or null one leaves the nil interface
UnmarshalAnyReply(buf) ==
    [err |-> structError(buf),
     Value |-> IF valueOf(buf).t = "absent" \/ structError(buf) # NoErr
               THEN JNull ELSE valueOf(buf)]

\* json.Unmarshal(res, reply) with reply := new(locationReply) or
\* new(sizeReply), Value a struct; &reply.Value is what the command returns
UnmarshalStructReply(buf) ==
    [err |-> replyError(buf, valueOf(buf).t \notin {"obj", "absent", "null"}),
     Value |-> IF valueOf(buf).t = "obj" THEN valueOf(buf) ELSE JObj(JAbsent)]

\* json.Unmarshal(data, reply) with reply := new(elementReply), Value element
\* with ELEMENT string: what is missing or null leaves the empty string
elementField(j) ==
    IF j.t = "obj" /\ j.ELEMENT.t = "str" THEN j.ELEMENT.s ELSE <<>>
UnmarshalElementReply(buf) ==
    [err |-> replyError(buf,
                \/ valueOf(buf).t \in {"str", "num", "bool", "arr"}
                \/ /\ valueOf(buf).t = "obj"
                   /\ valueOf(buf).ELEMENT.t \notin {"str", "absent", "null"}),
     ELEMENT |-> elementField(valueOf(buf))]

\* json.Unmarshal(res, c) with c := new(capabilitiesReply), Value Capabilities,
\* a map of interface{} by name: a JSON object becomes the map of its members,
\* each decoded into an interface{}; a missing or null value leaves the nil map
UnmarshalCapabilitiesReply(buf) ==
    [err |-> replyError(buf, valueOf(buf).t \notin {"map", "absent", "null"}),
     Value |-> IF valueOf(buf).t = "map"
               THEN [key \in DOMAIN valueOf(buf).m |-> decodeValue(valueOf(buf).m[key])]
               ELSE JNull]

\* json.Unmarshal into the reply struct of the given kind
Unmarshal(kind, buf) ==
    CASE kind = "bool" -> UnmarshalBoolReply(buf)
      [] kind = "capabilities" -> UnmarshalCapabilitiesReply(buf)
      [] kind = "strings" -> UnmarshalStringsReply(buf)
      [] kind = "any" -> UnmarshalAnyReply(buf)
      [] kind = "struct" -> UnmarshalStructReply(buf)

(***************************************************************************)
(* Commands of the session                                                 *)
(***************************************************************************)
\* the lines shared by boolCommand (268-278), stringsCommand (253-262),
\* execScript (655-665), location (799-808) and Size (822-831): the error of
\* execute or of json.Unmarshal is returned with the zero value, else
\* reply.Value; e is what execute returned
valueDecoded(w, e, kind) ==
    IF e.err # NoErr
    THEN valueDone(w, IF kind = "bool" THEN JBool(FALSE) ELSE JNull, e.err, FALSE, e)
    ELSE IF Unmarshal(kind, e.buf).err # NoErr
    THEN valueDone(w, IF kind = "bool" THEN JBool(FALSE) ELSE JNull,
                   Unmarshal(kind, e.buf).err, FALSE, e)
    ELSE valueDone(w, Unmarshal(kind, e.buf).Value, NoErr, FALSE, e)

\* func (wd *remoteWD) boolCommand(urlTemplate string) (bool, error)
boolCommand(w, urlTemplate, srv) ==
    valueDecoded(w, execute("GET", url(w, urlTemplate, <<w.id>>), NoData, srv), "bool")

\* func (wd remoteWD) stringsCommand(urlTemplate string) ([]string, error)
stringsCommand(w, urlTemplate, srv) ==
    valueDecoded(w, execute("GET", url(w, urlTemplate, <<w.id>>), NoData, srv), "strings")

\* func (r *reply) readValue(v interface{}) error, with v a **Status:
\* json.Unmarshal(r.Value, v).  A reply without a value member has an empty
\* RawMessage; null leaves the pointer nil; anything else allocates the Status.
readValue(r) ==
    CASE r.Value.t = "absent" ->
            [err |-> SyntaxError("unexpected end of JSON input"), v |-> JNull]
      [] r.Value.t = "null" -> [err |-> NoErr, v |-> JNull]
      [] r.Value.t = "obj" -> [err |-> NoErr, v |-> r.Value]
      [] OTHER -> [err |-> UnmarshalTypeError("cannot unmarshal into Go value"),
                   v |-> JObj(JAbsent)]

\* Status, lines 285-288, s being what send returned; r.readValue reads
\* r.Value and panics when r is nil
statusRead(w, s) ==
    IF s.err # NoErr
    THEN valueDone(w, JNull, s.err, FALSE, s)
    ELSE IF s.r.nil
    THEN valueDone(w, JNull, NoErr, TRUE, s)
    ELSE valueDone(w, readValue(s.r).v, readValue(s.r).err, FALSE, s)

\* CurrentURL, lines 395-401, e being what execute returned: the error of
\* json.Unmarshal is dropped and *reply.Value panics on a nil pointer
currentURLDecoded(w, e) ==
    IF e.err # NoErr
    THEN valueDone(w, <<>>, e.err, FALSE, e)
    ELSE IF UnmarshalStringReply(e.buf).nil
    THEN valueDone(w, <<>>, NoErr, TRUE, e)
    ELSE valueDone(w, UnmarshalStringReply(e.buf).Value, NoErr, FALSE, e)

\* a []interface{}: the nil slice and the slice of the given elements
Slice(elems) == [nil |-> FALSE, elems |-> elems]

\* json.Marshal of a []interface{} inside the params map: the nil slice
\* encodes as null, any other as the array of its encoded elements
marshalSlice(args) == IF args.nil THEN JNull ELSE JArr(args.elems)

\* execScript, lines 642-650: json.Marshal(params)
marshalParams(script, args) ==
    IF \E i \in 1..Len(args.elems) : args.elems[i] = JFunc
    THEN [err |-> UnsupportedTypeError("json: unsupported type"), data |-> NoData]
    ELSE [err |-> NoErr,
          data |-> [k |-> "object", script |-> JStr(script), args |-> marshalSlice(args)]]

\* execScript, lines 647-665, m being what json.Marshal gave
scriptPosted(w, m, suffix, srv) ==
    IF m.err # NoErr
    THEN [wd |-> w, ret |-> JNull, err |-> m.err, panic |-> FALSE,
          req |-> NoReq, res |-> NoRes, reqs |-> <<>>]
    ELSE valueDecoded(w,
            execute("POST",
                    url(w, <<"/session/", "%", "s", "/execute">> \o suffix, <<w.id>>),
                    m.data, srv),
            "any")

\* func (wd *remoteWD) execScript(script string, args []interface{}, suffix string)
execScript(w, script, args, suffix, srv) ==
    scriptPosted(w, marshalParams(script, args), suffix, srv)

(***************************************************************************)
(* Elements: type remoteWE struct { parent *remoteWD; id string }          *)
(***************************************************************************)
\* parent names the client the handle points at
remoteWE(parent, id) == [exists |-> TRUE, parent |-> parent, id |-> id]
NoElem == [exists |-> FALSE, parent |-> "", id |-> <<>>]

\* func decodeElement(wd *remoteWD, data []byte) (WebElement, error), and the
\* err != nil test of its callers, e being what find returned
decodeElement(w, e) ==
    IF e.err # NoErr
    THEN valueDone(w, NoElem, e.err, FALSE, e)
    ELSE IF UnmarshalElementReply(e.buf).err # NoErr
    THEN valueDone(w, NoElem, UnmarshalElementReply(e.buf).err, FALSE, e)
    ELSE valueDone(w, remoteWE("wd", UnmarshalElementReply(e.buf).ELEMENT), NoErr, FALSE, e)

\* func decodeElements(wd *remoteWD, data []byte) ([]WebElement, error), and
\* the err != nil test of FindElements, e being what find returned:
\* json.Unmarshal into elementsReply, Value []element, and one handle for
\* each member in its order; a missing or null value gives no handle
decodeElements(w, e) ==
    IF e.err # NoErr
    THEN valueDone(w, <<>>, e.err, FALSE, e)
    ELSE IF replyError(e.buf,
                \/ valueOf(e.buf).t \notin {"arr", "absent", "null"}
                \/ /\ valueOf(e.buf).t = "arr"
                   /\ \E i \in 1..Len(valueOf(e.buf).a) :
                        \/ valueOf(e.buf).a[i].t \notin {"obj", "null"}
                        \/ /\ valueOf(e.buf).a[i].t = "obj"
                           /\ valueOf(e.buf).a[i].ELEMENT.t \notin {"str", "absent", "null"})
            # NoErr
    THEN valueDone(w, <<>>, UnmarshalTypeError("cannot unmarshal into Go struct field"),
                   FALSE, e)
    ELSE valueDone(w,
                   [i \in 1..(IF valueOf(e.buf).t = "arr" THEN Len(valueOf(e.buf).a) ELSE 0) |->
                       remoteWE("wd", elementField(valueOf(e.buf).a[i]))],
                   NoErr, FALSE, e)

\* func (wd *remoteWD) find(by, value, suffix, url string) ([]byte, error);
\* json.Marshal of a map[string]string does not fail
find(w, by, value, suffix, u, srv) ==
    execute("POST",
            url(w, (IF u = <<>> THEN <<"/session/", "%", "s", "/element">> ELSE u) \o suffix,
                <<w.id>>),
            [k |-> "object", using |-> JStr(by), value |-> JStr(value)], srv)

\* the methods of remoteWD, by name (besides NewSession, Quit, Refresh, Close
\* and Title above); arg is the argument of the method that has one
command(op, w, arg, srv) ==
    CASE op = "Refresh" -> Refresh(w, srv)
      [] op = "Close" -> Close(w, srv)
      [] op = "Title" -> Title(w, srv)
      [] op = "Capabilities" ->
            valueDecoded(w,
                execute("GET", url(w, <<"/session/", "%", "s">>, <<w.id>>), NoData, srv),
                "capabilities")
      [] op = "Status" ->
            statusRead(w, send("GET", url(w, <<"/status">>, <<>>), NoData, srv))
      [] op = "CurrentURL" ->
            currentURLDecoded(w,
                execute("GET", url(w, <<"/session/", "%", "s", "/url">>, <<w.id>>),
                        NoData, srv))
      [] op = "AvailableEngines" ->
            stringsCommand(w, <<"/session/", "%", "s", "/ime/available_engines">>, srv)
      [] op = "ActiveEngine" ->
            stringCommand(w, <<"/session/", "%", "s", "/ime/active_engine">>, srv)
      [] op = "IsEngineActivated" ->
            boolCommand(w, <<"/session/", "%", "s", "/ime/activated">>, srv)
      [] op = "DeactivateEngine" ->
            voidCommand(w, <<"session/", "%", "s", "/ime/deactivate">>, NoData, srv)
      [] op = "ActivateEngine" ->
            voidCommand(w, <<"/session/", "%", "s", "/ime/activate">>,
                        [k |-> "object", engine |-> JStr(arg)], srv)
      [] op = "ExecuteScript" -> execScript(w, <<"return 'foo'">>, arg, <<>>, srv)
      [] op = "ExecuteScriptAsync" ->
            execScript(w, <<"return 'foo'">>, arg, <<"_async">>, srv)
      [] op = "FindElement" ->
            decodeElement(w, find(w, <<"css selector">>, arg, <<>>, <<>>, srv))
      [] op = "FindElements" ->
            decodeElements(w, find(w, <<"css selector">>, arg, <<"s">>, <<>>, srv))
      [] op = "CloseWindow" ->
            commandDone(w,
                execute("DELETE", url(w, <<"/session/", "%", "s", "/window">>, <<w.id>>),
                        NoData, srv))
      [] op = "DeleteCookie" ->
            commandDone(w,
                execute("DELETE",
                        url(w, <<"/session/", "%", "s", "/cookie/", "%", "s">>, <<w.id, arg>>),
                        NoData, srv))

\* boolQuery that answers without asking
boolQueryNoRequest(elem, w, urlTemplate, srv) ==
    valueDone(w, JBool(FALSE), NoErr, FALSE, [req |-> NoReq, res |-> NoRes, reqs |-> <<>>])

\* boolQuery that addresses the session in which the handle was decoded
boolQueryBornSession(elem, w, urlTemplate, srv) ==
    boolCommand([w EXCEPT !.id = born], Sprintf(urlTemplate, <<elem.id>>), srv)

\* func (elem *remoteWE) boolQuery(urlTemplate string) (bool, error)
boolQuery(elem, w, urlTemplate, srv) ==
    boolCommand(w, Sprintf(urlTemplate, <<elem.id>>), srv)

\* func (elem *remoteWE) location(suffix string) (*Point, error)
location(elem, w, suffix, srv) ==
    valueDecoded(w,
        execute("GET",
                url(w, <<"/session/", "%", "s", "/element/", "%", "s", "/location">> \o suffix,
                    <<w.id, elem.id>>),
                NoData, srv),
        "struct")

\* the methods of remoteWE, by name; w is the client elem.parent points at.
\* A template "/session/%%s/element/%s/x" is formatted with elem.id first and
\* with the session id by the command helper; the template of CSSProperty has
\* %s for the session id and is formatted with wd.id, elem.id and name.
elementCommand(op, elem, w, arg, srv) ==
    CASE op = "remoteWE.Click" ->
            voidCommand(w,
                Sprintf(<<"/session/", "%", "%", "s", "/element/", "%", "s", "/click">>,
                        <<elem.id>>),
                NoData, srv)
      [] op = "remoteWE.SendKeys" ->
            voidCommand(w,
                Sprintf(<<"/session/", "%", "%", "s", "/element/", "%", "s", "/value">>,
                        <<elem.id>>),
                [k |-> "object",
                 value |-> JArr([i \in 1..Len(arg) |-> JStr(<<arg[i]>>)])],
                srv)
      [] op = "remoteWE.TagName" ->
            stringCommand(w,
                Sprintf(<<"/session/", "%", "%", "s", "/element/", "%", "s", "/name">>,
                        <<elem.id>>),
                srv)
      [] op = "remoteWE.Text" ->
            stringCommand(w,
                Sprintf(<<"/session/", "%", "%", "s", "/element/", "%", "s", "/text">>,
                        <<elem.id>>),
                srv)
      [] op = "remoteWE.Submit" ->
            voidCommand(w,
                Sprintf(<<"/session/", "%", "%", "s", "/element/", "%", "s", "/submit">>,
                        <<elem.id>>),
                NoData, srv)
      [] op = "remoteWE.Clear" ->
            voidCommand(w,
                Sprintf(<<"/session/", "%", "%", "s", "/element/", "%", "s", "/clear">>,
                        <<elem.id>>),
                NoData, srv)
      [] op = "remoteWE.FindElement" ->
            decodeElement(w,
                find(w, <<"css selector">>, arg, <<>>,
                     Sprintf(<<"/session/", "%", "%", "s", "/element/", "%", "s", "/element">>,
                             <<elem.id>>),
                     srv))
      [] op = "remoteWE.IsSelected" ->
            boolQuery(elem, w,
                <<"/session/", "%", "%", "s", "/element/", "%", "s", "/selected">>, srv)
      [] op = "remoteWE.IsEnabled" ->
            boolQuery(elem, w,
                <<"/session/", "%", "%", "s", "/element/", "%", "s", "/enabled">>, srv)
      [] op = "remoteWE.IsDiaplayed" ->
            boolQuery(elem, w,
                <<"/session/", "%", "%", "s", "/element/", "%", "s", "/displayed">>, srv)
      [] op = "remoteWE.GetAttribute" ->
            stringCommand(w,
                Sprintf(<<"/session/", "%", "%", "s", "/element/", "%", "s",
                          "/attribute/", "%", "s">>,
                        <<elem.id, arg>>),
                srv)
      [] op = "remoteWE.Location" -> location(elem, w, <<>>, srv)
      [] op = "remoteWE.LocationInView" -> location(elem, w, <<"_in_view">>, srv)
      [] op = "remoteWE.Size" ->
            valueDecoded(w,
                execute("GET",
                        url(w, <<"/session/", "%", "s", "/element/", "%", "s", "/size">>,
                            <<w.id, elem.id>>),
                        NoData, srv),
                "struct")
      [] op = "remoteWE.CSSProperty" ->
            stringCommand(w,
                Sprintf(<<"/session/", "%", "s", "/element/", "%", "s", "/css/", "%", "s">>,
                        <<w.id, elem.id, arg>>),
                srv)

(***************************************************************************)
(* Inputs: what the caller passes and what the server answers              *)
(***************************************************************************)
Sids == {<<ToString(i)>> : i \in 1..MaxSid}

CapsSet == {[browserName |-> JStr(<<"firefox">>)], [browserName |-> JFunc]}

JSONContentTypes == {jsonMIMEType, jsonMIMEType \o <<"; charset=utf-8">>}

\* a server that answers the first request of an exchange
Server(fail, code, ctype, body) ==
    [fail |-> fail, code |-> code, ctype |-> ctype, body |-> body,
     redirects |-> 0, copy |-> FALSE]

\* a server that answers like srv after n redirects; copy tells whether the
\* redirect requests start from the headers of the first request
Redirecting(srv, n, copy) == [srv EXCEPT !.redirects = n, !.copy = copy]
Unreachable == Server("connect", 0, <<>>, NilBuf)

\* the servers the session lifecycle is run against
Servers ==
    {Unreachable}
    \cup {Server("none", code, ctype, body) :
            code \in {200, 404}, ctype \in {jsonMIMEType, <<"text/plain">>},
            body \in {EmptyBody, InvalidBody, NullBody,
                      ObjectBody(JAbsent, JNum(SUCCESS), JStr(<<"foo">>))}
                     \cup {ObjectBody(sid, st, JAbsent) :
                             sid \in {JAbsent} \cup {JStr(x) : x \in Sids},
                             st \in {JAbsent, JNum(SUCCESS), JNum(7)}}}

\* the servers that answer after a chain of redirects
RedirectServers ==
    {Redirecting(srv, n, copy) :
        srv \in {Server("none", 200, jsonMIMEType,
                        ObjectBody(JAbsent, JNum(SUCCESS), JStr(<<"foo">>))),
                 Server("none", 200, <<"text/plain">>, EmptyBody),
                 Server("none", 404, jsonMIMEType, ObjectBody(JAbsent, JNum(7), JAbsent)),
                 Server("read", 200, jsonMIMEType, NullBody)},
        n \in 1..MaxChain, copy \in BOOLEAN}

\* the servers execute alone is run against
ExecServers ==
    {Unreachable}
    \cup {Server(fail, code, ctype, body) :
            fail \in {"none", "read"}, code \in {200, 399, 400, 404, 500},
            ctype \in JSONContentTypes \cup {<<>>, <<"text/plain">>},
            body \in {EmptyBody, InvalidBody, NullBody, [k |-> "scalar"]}
                     \cup {ObjectBody(sid, st, v) :
                             sid \in {JAbsent, JNum(5), JStr(<<"1">>)},
                             st \in {JAbsent, JNull, JStr(<<"ok">>)}
                                    \cup {JNum(c) : c \in 0..MaxStatus},
                             v \in {JAbsent, JStr(<<"foo">>)}}}
    \cup RedirectServers


(***************************************************************************)
(* State machine of one caller and one client                              *)
(***************************************************************************)
\* the callers that may have a call in progress at the same time
Callers == {1, 2}

Call(op, pre, srv, r, ret, panic, sendErr) ==
    [op |-> op, pre |-> pre, srv |-> srv, req |-> r.req, res |-> r.res,
     ret |-> ret, err |-> r.err, panic |-> panic, sendErr |-> sendErr,
     buf |-> NilBuf, reqs |-> r.reqs, on |-> NoElem, arg |-> <<>>, again |-> [is |-> FALSE],
     fatal |-> FALSE]

NoCall ==
    [op |-> "none", pre |-> NoClient, srv |-> Server("none", 0, <<>>, NilBuf), req |-> NoReq, res |-> NoRes,
     ret |-> <<>>, err |-> NoErr, panic |-> FALSE, sendErr |-> NoErr,
     buf |-> NilBuf, reqs |-> <<>>, on |-> NoElem, arg |-> <<>>, again |-> [is |-> FALSE],
     fatal |-> FALSE]

Init ==
    /\ wd = NoClient
    /\ last = NoCall
    /\ opened = FALSE
    /\ we = NoElem
    /\ Trace = FALSE
    /\ wd2 = NoClient
    /\ calls = [c \in Callers |-> [active |-> FALSE]]
    /\ run = [active |-> FALSE, returned |-> FALSE]
    /\ born = <<>>

\* the caller obtains its client: capabilities of C, an executor of E, while
\* the server is one of S
NewRemoteAgainst(C, E, S) ==
    /\ ~wd.exists
    /\ \E capabilities \in C, executor \in E, srv \in S :
         \E r \in {NewRemote(capabilities, executor, srv)} :
             /\ wd' = r.ret
             /\ last' = Call("NewRemote", wd, srv, r, r.ret.id, r.panic, r.sendErr)
             /\ opened' = (r.ret.exists /\ r.req.sent /\ r.sendErr = NoErr)
             /\ UNCHANGED <<we, aside>>

\* the caller calls wd.NewSession() while the server is one of S
NewSessionAgainst(S) ==
    /\ wd.exists
    /\ \E srv \in S :
         \E r \in {NewSession(wd, srv)} :
             /\ wd' = r.wd
             /\ last' = Call("NewSession", wd, srv, r, r.sessionId, r.panic, r.sendErr)
             /\ opened' = IF r.req.sent /\ r.sendErr = NoErr /\ ~r.panic
                          THEN TRUE ELSE opened
             /\ UNCHANGED <<we, aside>>

\* the caller calls wd.Quit() while the server is one of S
QuitAgainst(S) ==
    /\ wd.exists
    /\ \E srv \in S :
         \E r \in {Quit(wd, srv)} :
             /\ wd' = r.wd
             /\ last' = Call("Quit", wd, srv, r, <<>>, FALSE, NoErr)
             /\ opened' = IF r.err = NoErr THEN FALSE ELSE opened
             /\ UNCHANGED <<we, aside>>

DoRefresh ==
    /\ wd.exists
    /\ \E srv \in Servers :
         \E r \in {Refresh(wd, srv)} :
             /\ wd' = r.wd
             /\ last' = Call("Refresh", wd, srv, r, <<>>, FALSE, NoErr)
             /\ UNCHANGED <<opened, we, aside>>

DoClose ==
    /\ wd.exists
    /\ \E srv \in Servers :
         \E r \in {Close(wd, srv)} :
             /\ wd' = r.wd
             /\ last' = Call("Close", wd, srv, r, <<>>, FALSE, NoErr)
             /\ UNCHANGED <<opened, we, aside>>

DoTitle ==
    /\ wd.exists
    /\ \E srv \in Servers :
         \E r \in {Title(wd, srv)} :
             /\ wd' = r.wd
             /\ last' = Call("Title", wd, srv, r, r.ret, r.panic, NoErr)
             /\ UNCHANGED <<opened, we, aside>>

Next ==
    \/ NewRemoteAgainst(CapsSet, {<<>>, <<"http://h:4444">>, <<":">>}, Servers)
    \/ NewSessionAgainst(Servers)
    \/ QuitAgainst(Servers)
    \/ DoRefresh
    \/ DoClose
    \/ DoTitle

Spec == Init /\ [][Next]_vars

(***************************************************************************)
(* execute on its own: every request against every server                  *)
(***************************************************************************)

DoExecute ==
    /\ last = NoCall
    /\ \E method \in {"GET", "POST", "DELETE"},
          u \in {<<"http://h:4444", "/session/", "1">>, <<":", "/status">>},
          srv \in ExecServers,
          data \in {NoData, [k |-> "object", engine |-> JStr(<<"ime">>)]} :
         \E r \in {execute(method, u, data, srv)} :
             /\ last' = [Call("execute", NoClient, srv, r, <<>>, FALSE, NoErr)
                             EXCEPT !.buf = r.buf, !.arg = [trace |-> Trace]]
             /\ UNCHANGED <<wd, opened, we, aside>>

\* the program sets the package variable Trace
SetTrace ==
    /\ Trace' = ~Trace
    /\ UNCHANGED <<wd, last, opened, we, wd2, calls, run, born>>

NextExec == DoExecute \/ SetTrace

SpecExec == Init /\ [][NextExec]_vars

(***************************************************************************)
(* The commands of a client and of an element it found                     *)
(***************************************************************************)
SessionCommands ==
    {"Refresh", "Close", "Title", "Status", "CurrentURL", "AvailableEngines",
     "ActiveEngine", "IsEngineActivated", "DeactivateEngine", "ActivateEngine",
     "ExecuteScript", "ExecuteScriptAsync", "FindElement"}
ElementCommands ==
    {"remoteWE.Click", "remoteWE.SendKeys", "remoteWE.TagName", "remoteWE.Text",
     "remoteWE.Submit", "remoteWE.Clear", "remoteWE.FindElement", "remoteWE.IsSelected",
     "remoteWE.IsEnabled", "remoteWE.IsDiaplayed", "remoteWE.GetAttribute",
     "remoteWE.Location", "remoteWE.LocationInView", "remoteWE.Size",
     "remoteWE.CSSProperty"}

\* the arguments the caller passes to a command
ArgsOf(op) ==
    CASE op \in {"ExecuteScript", "ExecuteScriptAsync"} ->
            {[nil |-> TRUE, elems |-> <<>>], Slice(<<>>), Slice(<<JStr(<<"a">>)>>), Slice(<<JFunc>>)}
      [] op \in {"FindElement", "FindElements", "remoteWE.FindElement"} -> {<<"#a">>}
      [] op \in {"remoteWE.GetAttribute", "remoteWE.CSSProperty"} -> {<<"color">>}
      [] op = "remoteWE.SendKeys" -> {<<"a", "b">>}
      [] op = "ActivateEngine" -> {<<"ime">>}
      [] OTHER -> {<<>>}


\* a success reply with the given value member
Reply(v) == Server("none", 200, jsonMIMEType, ObjectBody(JAbsent, JNum(SUCCESS), v))

\* answers that tell nothing about the command: no connection, an error
\* reply, an empty and a null body, and an empty body after two redirects
CommonServers ==
    {Unreachable,
     Server("none", 404, jsonMIMEType, ObjectBody(JAbsent, JNum(7), JAbsent)),
     Server("none", 200, <<"text/plain">>, EmptyBody),
     Server("none", 200, jsonMIMEType, NullBody),
     Redirecting(Server("none", 200, <<"text/plain">>, EmptyBody), 2, FALSE)}

\* the servers NewSession and Quit are run against beside the commands
SessionServers ==
    CommonServers
    \cup {Server("none", 200, jsonMIMEType, ObjectBody(JStr(sid), JNum(SUCCESS), JAbsent)) :
            sid \in Sids}

\* the value members a command is answered with: those its reply struct
\* takes, a missing and a null one, and one of another shape
Values(op) ==
    CASE op \in {"Title", "CurrentURL", "ActiveEngine", "remoteWE.TagName",
                 "remoteWE.Text", "remoteWE.GetAttribute", "remoteWE.CSSProperty"} ->
            {JAbsent, JNull, JStr(<<"foo">>), JNum(1)}
      [] op \in {"IsEngineActivated", "remoteWE.IsSelected", "remoteWE.IsEnabled",
                 "remoteWE.IsDiaplayed"} ->
            {JAbsent, JNull, JBool(TRUE), JBool(FALSE), JStr(<<"foo">>)}
      [] op = "AvailableEngines" ->
            {JNull, JArr(<<JStr(<<"ime">>)>>), JArr(<<JNum(1)>>)}
      [] op \in {"ExecuteScript", "ExecuteScriptAsync"} ->
            {JAbsent, JNull, JStr(<<"foo">>), JNum(1), JArr(<<>>)}
      [] op \in {"FindElement", "remoteWE.FindElement"} ->
            {JObj(JStr(<<"e" \o ToString(i)>>)) : i \in 1..MaxElem}
            \cup {JAbsent, JNull, JObj(JAbsent), JObj(JStr(<<>>)), JStr(<<"foo">>)}
      [] op \in {"remoteWE.Location", "remoteWE.LocationInView", "remoteWE.Size"} ->
            {JNull, JObj(JAbsent), JNum(1)}
      [] op = "FindElements" ->
            {JNull, JStr(<<"foo">>), JArr(<<>>), JArr(<<JObj(JStr(<<"e1">>))>>),
             JArr(<<JObj(JStr(<<"e2">>)), JObj(JStr(<<"e1">>))>>)}
      [] op = "Status" -> {JAbsent, JNull, JObj(JAbsent), JStr(<<"foo">>)}
      [] OTHER -> {JNull}
ServersFor(op) == CommonServers \cup {Reply(v) : v \in Values(op)}

\* the call op, made on the element on with the argument arg, returned r; the
\* caller keeps the element a find returned without error
Done(op, srv, r, on, arg) ==
    /\ wd' = r.wd
    /\ last' = [Call(op, wd, srv, r, r.ret, r.panic, NoErr) EXCEPT !.on = on, !.arg = arg]
    /\ we' = IF op \in {"FindElement", "remoteWE.FindElement"} /\ r.err = NoErr
             THEN r.ret ELSE we
    /\ UNCHANGED <<opened, aside>>

\* the caller calls a method of its client
DoCommand ==
    /\ wd.exists
    /\ \E op \in SessionCommands :
         \E srv \in ServersFor(op), arg \in ArgsOf(op) :
             \E r \in {command(op, wd, arg, srv)} : Done(op, srv, r, NoElem, arg)

\* the caller calls a method of the element it holds
DoElementCommand ==
    /\ wd.exists /\ we.exists
    /\ \E op \in ElementCommands :
         \E srv \in ServersFor(op), arg \in ArgsOf(op) :
             \E r \in {elementCommand(op, we, wd, arg, srv)} : Done(op, srv, r, we, arg)

NextCmd ==
    \/ NewRemoteAgainst(CapsSet, {<<>>, <<"http://h:4444">>}, Servers)
    \/ NewSessionAgainst(SessionServers)
    \/ QuitAgainst(SessionServers)
    \/ DoCommand
    \/ DoElementCommand

SpecCmd == Init /\ [][NextCmd]_vars

(***************************************************************************)
(* Capabilities sent and read back                                         *)
(***************************************************************************)
\* the caller asks the session for its capabilities; the server fails, or
\* answers with a value that is no object, or with the members some client
\* sent as its desiredCapabilities
DoCapabilities ==
    /\ wd.exists
    /\ \E srv \in CommonServers
                  \cup {Reply(v) : v \in {JAbsent, JNull, JStr(<<"foo">>)}}
                  \cup {Reply(JMap(marshalMessage(
                                       [browserName |-> JStr(<<"firefox">>),
                                        version |-> v]).data.desiredCapabilities)) :
                          v \in {JStr(<<"3">>), JBool(TRUE), JNull,
                                 GoNum("int", 3), GoNum("float64", 3)}} :
         \E r \in {command("Capabilities", wd, <<>>, srv)} :
             Done("Capabilities", srv, r, NoElem, <<>>)

NextCaps ==
    \/ NewRemoteAgainst({[browserName |-> JStr(<<"firefox">>), version |-> v] :
                            v \in {JStr(<<"3">>), JBool(TRUE), JNull,
                                   GoNum("int", 3), GoNum("float64", 3)}},
                        {<<>>}, SessionServers)
    \/ DoCapabilities

SpecCaps == Init /\ [][NextCaps]_vars

(***************************************************************************)
(* WebDriverT and WebElementT of test_helpers.go: the facade of a test     *)
(***************************************************************************)
\* webElementT{e, t}, what elem.T(wt.t) wraps a handle in
webElementT(e) == [e |-> e, t |-> "t"]

\* a facade method that goes on whatever the underlying method returned
fatalOrValueSilent(op, r) ==
    [fatal |-> FALSE,
     ret |-> IF r.panic THEN <<>>
             ELSE IF op \in {"FindElement", "remoteWE.FindElement"} THEN webElementT(r.ret)
             ELSE IF op = "FindElements"
             THEN [i \in 1..Len(r.ret) |-> webElementT(r.ret[i])]
             ELSE r.ret]

\* a method of webDriverT or webElementT after its one call of the method of
\* wt.d or wt.e, r being what that call returned: wt.t.Fatalf, which ends the
\* test, when err != nil; else the value, a found element wrapped
fatalOrValue(op, r) ==
    [fatal |-> ~r.panic /\ r.err # NoErr,
     ret |-> IF r.panic \/ r.err # NoErr THEN <<>>
             ELSE IF op \in {"FindElement", "remoteWE.FindElement"} THEN webElementT(r.ret)
             ELSE IF op = "FindElements"
             THEN [i \in 1..Len(r.ret) |-> webElementT(r.ret[i])]
             ELSE r.ret]

\* the test calls a method of the WebDriverT it holds
DoDriverT ==
    /\ wd.exists
    /\ \E op \in {"Refresh", "Close", "Title", "CurrentURL", "ExecuteScript",
                   "ExecuteScriptAsync", "FindElement", "FindElements"} :
         \E srv \in ServersFor(op), arg \in ArgsOf(op) :
             \E r \in {command(op, wd, arg, srv)} :
                 /\ wd' = r.wd
                 /\ last' = [Call(op, wd, srv, r, fatalOrValue(op, r).ret, r.panic, NoErr)
                                 EXCEPT !.arg = arg, !.fatal = fatalOrValue(op, r).fatal]
                 /\ we' = IF op = "FindElement" /\ r.err = NoErr THEN r.ret ELSE we
                 /\ UNCHANGED <<opened, aside>>

\* the test calls a method of the WebElementT it holds; IsDisplayed of the
\* facade is answered by the method remote.go spells IsDiaplayed
DoElementT ==
    /\ wd.exists /\ we.exists
    /\ \E op \in ElementCommands :
         \E srv \in ServersFor(op), arg \in ArgsOf(op) :
             \E r \in {elementCommand(op, we, wd, arg, srv)} :
                 /\ wd' = r.wd
                 /\ last' = [Call(op, wd, srv, r, fatalOrValue(op, r).ret, r.panic, NoErr)
                                 EXCEPT !.on = we, !.arg = arg,
                                        !.fatal = fatalOrValue(op, r).fatal]
                 /\ we' = IF op = "remoteWE.FindElement" /\ r.err = NoErr THEN r.ret ELSE we
                 /\ UNCHANGED <<opened, aside>>

NextT ==
    \/ NewRemoteAgainst({[browserName |-> JStr(<<"firefox">>)]}, {<<>>}, SessionServers)
    \/ DoDriverT
    \/ DoElementT

SpecT == Init /\ [][NextT]_vars

(***************************************************************************)
(* execute hop by hop: the caller is blocked while run.active              *)
(***************************************************************************)
\* execute is called: the request is built and put on the wire, or the call
\* returns the error of http.NewRequest.  A server of MaxChain + 1 redirects
\* answers every request the client can make with a redirect.
StartExecute ==
    /\ ~run.active
    /\ \E method \in {"GET", "POST"},
          u \in {<<"http://h:4444", "/session/", "1">>, <<":", "/status">>},
          srv \in {Unreachable, Reply(JStr(<<"foo">>)),
                   Redirecting(Reply(JNull), MaxChain + 1, FALSE)} \cup RedirectServers :
         run' = IF parseFails(u)
                THEN [active |-> FALSE, returned |-> TRUE, method |-> method, u |-> u,
                      srv |-> srv, via |-> <<>>,
                      result |-> execResult(NilBuf, parseError(u), NoReq, NoRes, <<>>)]
                ELSE [active |-> TRUE, returned |-> FALSE, method |-> method, u |-> u,
                      srv |-> srv, via |-> <<newRequest(method, u, NoData)>>,
                      result |-> execResult(NilBuf, NoErr, NoReq, NoRes, <<>>)]
    /\ UNCHANGED <<wd, last, opened, we, Trace, wd2, calls, born>>

\* the request on the wire is answered with a redirect: httpClient.Do asks
\* CheckRedirect and sends the next request, or gives up and execute returns
Redirected ==
    /\ run.active
    /\ run.srv.fail # "connect"
    /\ Len(run.via) <= run.srv.redirects
    /\ Len(run.via) <= MaxChain
    /\ \E c \in {CheckRedirect(redirectRequest(run.via[1], Len(run.via), run.srv), run.via)} :
         run' = IF c.err # NoErr
                THEN [run EXCEPT !.active = FALSE, !.returned = TRUE,
                                 !.result = roundTrip(run.via[1], run.srv, response(run.srv),
                                                      [err |-> URLError(c.err.msg),
                                                       via |-> run.via])]
                ELSE [run EXCEPT !.via = Append(@, c.req)]
    /\ UNCHANGED <<wd, last, opened, we, Trace, wd2, calls, born>>

\* the request on the wire gets no connection or its final response: execute
\* reads and handles it and returns
Answered ==
    /\ run.active
    /\ run.srv.fail = "connect" \/ Len(run.via) > run.srv.redirects
    /\ run' = [run EXCEPT !.active = FALSE, !.returned = TRUE,
                          !.result = roundTrip(run.via[1], run.srv, response(run.srv),
                                               [err |-> IF run.srv.fail = "connect"
                                                        THEN URLError("connection refused")
                                                        ELSE NoErr,
                                                via |-> run.via])]
    /\ UNCHANGED <<wd, last, opened, we, Trace, wd2, calls, born>>

NextHop == StartExecute \/ Redirected \/ Answered

\* every request on the wire is answered in the end
SpecHop == Init /\ [][NextHop]_vars /\ WF_vars(Redirected) /\ WF_vars(Answered)

(***************************************************************************)
(* An element handle kept across sessions of its client                    *)
(***************************************************************************)
\* the caller finds an element, on the session or below the element it
\* holds, and keeps the handle decodeElement returns
DoFind ==
    /\ wd.exists
    /\ \E op \in {"FindElement", "remoteWE.FindElement"}, srv \in ServersFor("FindElement") :
         /\ (op = "remoteWE.FindElement") => we.exists
         /\ \E r \in {IF op = "FindElement"
                       THEN command(op, wd, <<"#a">>, srv)
                       ELSE elementCommand(op, we, wd, <<"#a">>, srv)} :
              /\ wd' = r.wd
              /\ last' = [Call(op, wd, srv, r, r.ret, r.panic, NoErr)
                              EXCEPT !.on = IF op = "FindElement" THEN NoElem ELSE we,
                                     !.arg = <<"#a">>]
              /\ we' = IF r.err = NoErr THEN r.ret ELSE we
              /\ born' = IF r.err = NoErr THEN wd.id ELSE born
              /\ UNCHANGED <<opened, Trace, wd2, calls, run>>

\* the caller calls a method of the handle it holds; again tells whether the
\* call before was the same method on the same handle with the same argument,
\* and what it returned
DoQuery ==
    /\ wd.exists /\ we.exists
    /\ \E op \in ElementCommands \ {"remoteWE.FindElement"} :
         \E srv \in ServersFor(op), arg \in ArgsOf(op) :
             \E r \in {elementCommand(op, we, wd, arg, srv)} :
                 /\ wd' = r.wd
                 /\ last' = [Call(op, wd, srv, r, r.ret, r.panic, NoErr)
                                 EXCEPT !.on = we, !.arg = arg,
                                        !.again = IF last.op = op /\ last.on = we /\ last.arg = arg
                                                  THEN [is |-> TRUE, ret |-> last.ret]
                                                  ELSE [is |-> FALSE]]
                 /\ UNCHANGED <<opened, we, aside>>

NextHandle ==
    \/ NewRemoteAgainst({[browserName |-> JStr(<<"firefox">>)]}, {<<>>}, SessionServers)
    \/ NewSessionAgainst(SessionServers)
    \/ QuitAgainst(SessionServers)
    \/ DoFind
    \/ DoQuery

SpecHandle == Init /\ [][NextHandle]_vars

(***************************************************************************)
(* Two callers, each with a client of its own, whose calls overlap: a call *)
(* begins when it has built its request from the client and ends when the  *)
(* method returns.  The calls in progress are told by calls; last is left  *)
(* alone.                                                                  *)
(***************************************************************************)
\* NewRemote that hands every caller the same client
refShared(c) == 1

\* the client the variable of caller c refers to, 1 for wd and 2 for wd2:
\* NewRemote builds a remoteWD of its own for every call (line 216)
ref(c) == c
object(i) == IF i = 1 THEN wd ELSE wd2

\* the method op called on the client w (for NewRemote: called to make one)
performed(op, w, srv) ==
    CASE op = "NewRemote" ->
            NewRemote([browserName |-> JStr(<<"firefox">>)], <<>>, srv)
      [] op = "NewSession" -> NewSession(w, srv)
      [] op = "Quit" -> Quit(w, srv)
      [] OTHER -> command(op, w, <<>>, srv)

\* the client cur after the call that returned r: NewRemote hands out the
\* client it built (lines 216-224), NewSession stores the id of the reply
\* (line 301) and Quit the empty id (line 380); no other method assigns to
\* a field of the client
left(op, cur, r) ==
    CASE op = "NewRemote" -> r.ret
      [] op = "NewSession" ->
            IF r.sendErr = NoErr /\ ~r.panic /\ r.req.sent
            THEN [cur EXCEPT !.id = r.sessionId] ELSE cur
      [] op = "Quit" -> IF r.err = NoErr THEN [cur EXCEPT !.id = <<>>] ELSE cur
      [] OTHER -> cur

\* caller c calls a method: the request is built from its client
BeginCall(c) ==
    /\ ~calls[c].active
    /\ \E op \in {"NewRemote", "NewSession", "Quit", "Title", "Refresh"},
          srv \in SessionServers :
         /\ (op = "NewRemote") = ~object(ref(c)).exists
         /\ \E r \in {performed(op, object(ref(c)), srv)} :
              calls' = [calls EXCEPT ![c] =
                           [active |-> TRUE, op |-> op, srv |-> srv,
                            pre |-> object(ref(c)), req |-> r.req]]
    /\ UNCHANGED <<wd, last, opened, we, Trace, wd2, run, born>>

\* the call of caller c returns
EndCall(c) ==
    /\ calls[c].active
    /\ \E r \in {performed(calls[c].op, calls[c].pre, calls[c].srv)} :
         /\ wd' = IF ref(c) = 1 THEN left(calls[c].op, wd, r) ELSE wd
         /\ wd2' = IF ref(c) = 2 THEN left(calls[c].op, wd2, r) ELSE wd2
    /\ calls' = [calls EXCEPT ![c] = [active |-> FALSE]]
    /\ UNCHANGED <<last, opened, we, Trace, run, born>>

NextPair == \E c \in Callers : BeginCall(c) \/ EndCall(c)

SpecPair == Init /\ [][NextPair]_vars

(***************************************************************************)
(* Properties                                                              *)
(***************************************************************************)
\* what a body is as a status envelope, told from the bytes
isEnvelope(body) ==
    body.k = "object" /\ body.sessionId.t # "num" /\ body.status.t # "str"
envelopeStatus(body) == IF body.status.t = "num" THEN body.status.n ELSE 0
undecodable(body) ==
    body.k \in {"invalid", "scalar"} \/ (body.k = "object" /\ ~isEnvelope(body))

\* the session-creation exchange of the call failed: no connection, HTTP
\* status >= 400, an undecodable reply, or a JSON reply with status not 0
openExchangeFailed(c) ==
    /\ c.op \in {"NewSession", "NewRemote"}
    /\ c.req.sent
    /\ \/ c.srv.fail # "none"
       \/ c.srv.code >= 400
       \/ undecodable(c.srv.body)
       \/ /\ c.srv.ctype \in JSONContentTypes
          /\ isEnvelope(c.srv.body)
          /\ envelopeStatus(c.srv.body) # 0

\* C1: when the session-creation exchange fails, NewSession returns a non-nil
\* error, and NewRemote returns that error and no driver.
C1_OpenFailureIsReturned ==
    openExchangeFailed(last) =>
        /\ last.err # NoErr
        /\ last.op = "NewRemote" => ~wd.exists

\* C2: whenever NewSession returns without error, the id it returns is
\* non-empty, equals the stored session id, and is the sessionId field of the
\* server's reply.
C2_ReturnedIdIsStoredId ==
    (last.op = "NewSession" /\ ~last.panic /\ last.err = NoErr) =>
        /\ last.ret # <<>>
        /\ last.ret = wd.id
        /\ last.res.got
        /\ last.res.Body.k = "object"
        /\ last.res.Body.sessionId = JStr(last.ret)

\* C3: the request Quit sends is a DELETE to baseURL/session/S for the stored
\* id S (nothing is sent only when that URL cannot be parsed, and Quit then
\* fails); when Quit succeeds the stored id is empty afterwards, when it fails
\* the stored id is what it was.
C3_QuitClearsIdOnSuccessOnly ==
    last.op = "Quit" =>
        LET target == last.pre.executor \o <<"/session/">> \o last.pre.id
        IN  /\ last.req.sent =>
                /\ last.req.method = "DELETE"
                /\ last.req.url = target
            /\ ~last.req.sent => (parseFails(target) /\ last.err # NoErr)
            /\ last.err = NoErr => wd.id = <<>>
            /\ last.err # NoErr => wd.id = last.pre.id

\* a Quit on an open session was answered 404 and left the id in place
C3_Witness ==
    /\ last.op = "Quit"
    /\ last.req.sent
    /\ last.pre.id = <<"1">>
    /\ last.err # NoErr
    /\ last.srv.code = 404
    /\ wd.id = <<"1">>

\* C4: the stored session id is empty while no client exists, on a client on
\* which no session-open exchange has succeeded, and right after every
\* successful Quit; it is non-empty only between a successful NewSession and
\* the next successful Quit.
C4_IdNonEmptyOnlyWhileOpen ==
    /\ ~wd.exists => wd.id = <<>>
    /\ wd.id # <<>> => opened
    /\ (last.op = "Quit" /\ last.err = NoErr) => wd.id = <<>>

\* a session that was open has been ended by a successful Quit
C4_Witness ==
    /\ last.op = "Quit"
    /\ last.err = NoErr
    /\ last.pre.id # <<>>
    /\ wd.id = <<>>
    /\ ~opened

\* C5: after a NewSession failure on a never-opened client (the client that
\* NewRemote has just built) the stored session id is empty and the next
\* operation, whatever it is, leaves it empty.
C5_FailedOpenIsPermanent ==
    [][(last.op = "NewRemote" /\ openExchangeFailed(last) /\ wd.exists)
        => (wd.id = <<>> /\ wd'.id = <<>>)]_vars

\* the replies of execute the properties below speak of
executed == last.op = "execute" /\ last.res.got /\ last.srv.fail = "none"

\* C6: for HTTP status >= 400, whatever the content type, execute returns an
\* error and no payload: the bad-reply error naming the HTTP status when the
\* body does not decode, else the error of the envelope's status code; the
\* error of an undecodable body is never one of the classified errors.
C6_BadStatusAlwaysFails ==
    (executed /\ last.res.StatusCode >= 400) =>
        LET body == last.res.Body
            decoded == UnmarshalReply(body)
        IN  /\ last.err # NoErr
            /\ last.buf = NilBuf
            /\ decoded.err # NoErr =>
                 /\ last.err = NewError("Bad server reply status: " \o last.res.Status)
                 /\ \A c \in -1..(MaxStatus + 1) : last.err # statusError(c)
            /\ decoded.err = NoErr => last.err = statusError(decoded.reply.Status)

\* a 404 page that is not JSON, served with a JSON content type
C6_Witness ==
    /\ executed
    /\ last.res.StatusCode = 404
    /\ last.res.ContentType = jsonMIMEType
    /\ last.res.Body = InvalidBody
    /\ last.err = NewError("Bad server reply status: 404 Not Found")

\* C7: execute never looks up status 0 in the error table: no call returns
\* the error that the lookup of 0 gives.
C7_ZeroIsNeverClassified ==
    last.op = "execute" => last.err # statusError(0)

\* C8: for HTTP status < 400 and a JSON content type: a body that does not
\* decode gives the decode error, an envelope status other than 0 gives the
\* error of that status, and otherwise execute returns the body as received.
C8_JSONReply ==
    (executed /\ last.res.StatusCode < 400 /\ last.res.ContentType \in JSONContentTypes) =>
        LET body == last.res.Body
            decoded == UnmarshalReply(body)
        IN  /\ decoded.err # NoErr =>
                 /\ last.err = decoded.err
                 /\ last.err.type \in {"json.SyntaxError", "json.UnmarshalTypeError"}
                 /\ last.buf = NilBuf
            /\ (decoded.err = NoErr /\ decoded.reply.Status # 0) =>
                 /\ last.err = statusError(decoded.reply.Status)
                 /\ last.buf = NilBuf
            /\ (decoded.err = NoErr /\ decoded.reply.Status = 0) =>
                 /\ last.err = NoErr
                 /\ last.buf = last.srv.body

\* a JSON reply with status 7 is refused
C8_Witness ==
    /\ executed
    /\ last.res.StatusCode = 200
    /\ last.res.ContentType \in JSONContentTypes
    /\ last.res.Body = ObjectBody(JStr(<<"1">>), JNum(7), JAbsent)
    /\ last.err = NewError("no such element")
    /\ last.buf = NilBuf

\* C9: for HTTP status < 400 and a content type that is not JSON, execute
\* returns the body as received and no error, whatever the body is.
C9_NonJSONReplyIsReturnedRaw ==
    (executed /\ last.res.StatusCode < 400 /\ last.res.ContentType \notin JSONContentTypes) =>
        /\ last.err = NoErr
        /\ last.buf = last.srv.body

\* a text/plain reply that holds an envelope with status 7 is returned as is
C9_Witness ==
    /\ executed
    /\ last.res.StatusCode = 200
    /\ last.res.ContentType = <<"text/plain">>
    /\ last.res.Body = ObjectBody(JAbsent, JNum(7), JAbsent)
    /\ last.err = NoErr
    /\ last.buf = ObjectBody(JAbsent, JNum(7), JAbsent)

\* the kinds the wire protocol documents, code by code
documentedKinds ==
    <<  <<7, "no such element">>, <<8, "no such frame">>, <<9, "unknown command">>,
        <<10, "stale element reference">>, <<11, "element not visible">>,
        <<12, "invalid element state">>, <<13, "unknown error">>,
        <<15, "element is not selectable">>, <<17, "javascript error">>,
        <<19, "xpath lookup error">>, <<21, "timeout">>, <<23, "no such window">>,
        <<24, "invalid cookie domain">>, <<25, "unable to set cookie">>,
        <<26, "unexpected alert open">>, <<27, "no alert open">>,
        <<28, "script timeout">>, <<29, "invalid element coordinates">>,
        <<32, "invalid selector">>  >>
documentedCodes == {documentedKinds[i][1] : i \in DOMAIN documentedKinds}
documentedKind(c) ==
    LET i == CHOOSE j \in DOMAIN documentedKinds : documentedKinds[j][1] = c
    IN  documentedKinds[i][2]

\* execute classified the status of the envelope it decoded
classified ==
    /\ executed
    /\ isEnvelope(last.res.Body)
    /\ last.res.Body.status.t = "num"
    /\ last.res.Body.status.n # 0
    /\ last.res.StatusCode >= 400 \/ last.res.ContentType \in JSONContentTypes

\* C10: for a status code of the table the error is the documented kind of
\* that code; for any other non-zero code it is the unknown-server-error kind
\* carrying the code, which differs from the table's entry for 13.
C10_Classification ==
    classified =>
        LET c == last.res.Body.status.n
        IN  /\ c \in documentedCodes => last.err = NewError(documentedKind(c))
            /\ c \notin documentedCodes =>
                 /\ last.err = NewError("unknown error - " \o ToString(c))
                 /\ last.err # NewError(documentedKind(13))

\* a code outside the table has been classified
C10_Witness ==
    /\ classified
    /\ last.res.Body.status.n = 14
    /\ last.err = NewError("unknown error - 14")

\* one execute call went as far as httpClient.Do against a server that accepts
\* connections
exchanged == last.op = "execute" /\ last.req.sent /\ last.srv.fail # "connect"

\* the error of a refused redirect
redirectLimit == URLError("stopped after 10 redirects")

\* the redirect hops that went out are hops 1..n, in order, after the request
\* execute built
hopsSent(n) ==
    /\ Len(last.reqs) = n + 1
    /\ last.reqs[1] = last.req
    /\ \A k \in 1..n : last.reqs[k + 1].hop = k

\* the exchange was followed to the response the server gives in the end
followedToEnd ==
    /\ hopsSent(last.srv.redirects)
    /\ last.res = response(last.srv)
    /\ last.err # redirectLimit

\* the exchange was refused at hop n: hops 1..n-1 went out, hop n did not
refusedAt(n) ==
    /\ hopsSent(n - 1)
    /\ last.err = redirectLimit
    /\ ~last.res.got
    /\ last.buf = NilBuf

\* C11 (as stated): within one execute call redirect hops 1 through 10 are
\* followed and the 11th is refused: a chain of 11 redirects fails with the
\* redirect-limit error without the 11th hop being sent, and a chain of 10 or
\* fewer redirects is followed to its final response.
C11_TenHopsFollowed ==
    exchanged =>
        IF last.srv.redirects <= 10 THEN followedToEnd ELSE refusedAt(11)

\* C11 (amended): within one execute call redirect hops 1 through 9 are
\* followed and the 10th is refused: a chain of 10 or more redirects fails
\* with the redirect-limit error after ten requests, without the 10th hop
\* being sent, and a chain of 9 or fewer redirects is followed to its final
\* response.
C11_NineHopsFollowed ==
    exchanged =>
        IF last.srv.redirects <= 9 THEN followedToEnd ELSE refusedAt(10)

\* a chain of exactly 10 redirects has been refused
C11_Witness ==
    /\ exchanged
    /\ last.srv.redirects = 10
    /\ refusedAt(10)

\* the value Header.Get gives for a header
headerGet(values) == IF values = <<>> THEN <<>> ELSE Head(values)

\* C12: every HTTP request the transport sends, the request execute builds
\* and every redirect hop that is followed, carries Accept: application/json.
C12_AcceptOnEveryRequest ==
    \A i \in 1..Len(last.reqs) : headerGet(last.reqs[i].Accept) = jsonMIMEType

\* a redirect hop whose header started out empty has been sent
C12_Witness ==
    /\ exchanged
    /\ ~last.srv.copy
    /\ Len(last.reqs) >= 3
    /\ last.reqs[3].hop = 2
    /\ last.reqs[3].Accept = <<jsonMIMEType>>

\* C13: every request that is sent with a body carries the header
\* Content-Type: application/json.
C13_BodyHasContentType ==
    \A i \in 1..Len(last.reqs) :
        last.reqs[i].data # NoData =>
            headerGet(last.reqs[i].ContentType) = jsonMIMEType

\* the exchange of the call failed in the transport: no connection, an
\* unreadable body, a refused redirect, HTTP status >= 400, or a JSON reply
\* that does not decode or whose status is not 0
transportFailed(c) ==
    /\ c.req.sent
    /\ \/ c.srv.fail # "none"
       \/ c.srv.redirects >= 10
       \/ c.srv.code >= 400
       \/ /\ c.srv.ctype \in JSONContentTypes
          /\ \/ c.srv.body.k \in {"empty", "invalid", "scalar"}
             \/ /\ c.srv.body.k = "object"
                /\ ~isEnvelope(c.srv.body) \/ envelopeStatus(c.srv.body) # 0

\* the exchange of the call gave the command a body to decode
transportSucceeded(c) == c.req.sent /\ ~transportFailed(c)

\* the characters of a token string
RECURSIVE text(_)
text(tokens) == IF tokens = <<>> THEN "" ELSE Head(tokens) \o text(Tail(tokens))

\* C14: for ExecuteScript and ExecuteScriptAsync the args member of the
\* encoded request body is always an array, and for a nil argument list it is
\* the empty array [], never null.
C14_ArgsIsArray ==
    (last.op \in {"ExecuteScript", "ExecuteScriptAsync"} /\ last.req.sent) =>
        /\ last.req.data.args.t = "arr"
        /\ last.arg.nil => last.req.data.args = JArr(<<>>)

\* C15: FindElement, on the session or on a parent element, never returns
\* success with an empty element handle; when the reply it decodes carries no
\* element it fails with the no-such-element error (code 7).
C15_NoEmptyHandle ==
    last.op \in {"FindElement", "remoteWE.FindElement"} =>
        /\ last.err = NoErr => last.ret.exists /\ last.ret.id # <<>>
        /\ (transportSucceeded(last)
              /\ elementField(valueOf(last.res.Body)) = <<>>) =>
                 last.err = NewError(errorCodes[7])

\* the commands that return a string and those that return a bool
stringOps ==
    {"Title", "CurrentURL", "ActiveEngine", "remoteWE.TagName", "remoteWE.Text",
     "remoteWE.GetAttribute", "remoteWE.CSSProperty"}
boolOps ==
    {"IsEngineActivated", "remoteWE.IsSelected", "remoteWE.IsEnabled",
     "remoteWE.IsDiaplayed"}

\* the reply of the call has no value of the type the command returns: the
\* value member is missing, null or of another shape
valueUnusable(c) ==
    \/ c.op \in stringOps /\ valueOf(c.res.Body).t # "str"
    \/ c.op \in boolOps /\ valueOf(c.res.Body).t # "bool"

decodeErrors == {"json.SyntaxError", "json.UnmarshalTypeError"}

\* C16: for every string-returning or bool-returning command, a successful
\* exchange whose reply has a missing, null or wrongly-shaped value makes the
\* command return a decode error; it never crashes and never returns a
\* default value as success.
C16_BadValueIsDecodeError ==
    (transportSucceeded(last) /\ valueUnusable(last)) =>
        /\ ~last.panic
        /\ last.err.type \in decodeErrors

\* C17: NewSession and Status complete with a value or an error for every
\* reply the transport accepts, a success reply with an empty body and the
\* JSON literal null included; neither panics on an absent reply object.
C17_NoPanicOnAbsentReply ==
    (last.op \in {"NewSession", "Status"} /\ transportSucceeded(last)) => ~last.panic

\* the path of each session-scoped command after /session/S
sessionSuffix ==
    [Quit |-> "", Refresh |-> "/refresh", Close |-> "/window", Title |-> "/title",
     CurrentURL |-> "/url", AvailableEngines |-> "/ime/available_engines",
     ActiveEngine |-> "/ime/active_engine", IsEngineActivated |-> "/ime/activated",
     DeactivateEngine |-> "/ime/deactivate", ActivateEngine |-> "/ime/activate",
     ExecuteScript |-> "/execute", ExecuteScriptAsync |-> "/execute_async",
     FindElement |-> "/element"]

\* C18: for every session-scoped command, the five ime commands included, the
\* request URL is exactly baseURL followed by the command's path with the
\* stored session id substituted, so the path begins with /session/S.
C18_SessionURL ==
    (last.op \in DOMAIN sessionSuffix /\ last.req.sent) =>
        text(last.req.url) =
            text(last.pre.executor) \o "/session/" \o text(last.pre.id)
                \o sessionSuffix[last.op]

\* the path of each element-scoped command after /session/S/element/E
elementSuffix(c) ==
    CASE c.op = "remoteWE.FindElement" -> "/element"
      [] c.op = "remoteWE.Click" -> "/click"
      [] c.op = "remoteWE.SendKeys" -> "/value"
      [] c.op = "remoteWE.TagName" -> "/name"
      [] c.op = "remoteWE.Text" -> "/text"
      [] c.op = "remoteWE.Submit" -> "/submit"
      [] c.op = "remoteWE.Clear" -> "/clear"
      [] c.op = "remoteWE.IsSelected" -> "/selected"
      [] c.op = "remoteWE.IsEnabled" -> "/enabled"
      [] c.op = "remoteWE.IsDiaplayed" -> "/displayed"
      [] c.op = "remoteWE.GetAttribute" -> "/attribute/" \o text(c.arg)
      [] c.op = "remoteWE.Location" -> "/location"
      [] c.op = "remoteWE.LocationInView" -> "/location_in_view"
      [] c.op = "remoteWE.Size" -> "/size"
      [] c.op = "remoteWE.CSSProperty" -> "/css/" \o text(c.arg)
      [] OTHER -> ""

elementOps ==
    {"remoteWE.FindElement", "remoteWE.Click", "remoteWE.SendKeys", "remoteWE.TagName",
     "remoteWE.Text", "remoteWE.Submit", "remoteWE.Clear", "remoteWE.IsSelected",
     "remoteWE.IsEnabled", "remoteWE.IsDiaplayed", "remoteWE.GetAttribute",
     "remoteWE.Location", "remoteWE.LocationInView", "remoteWE.Size",
     "remoteWE.CSSProperty"}

\* C19: for every element-scoped command on handle E of a client with stored
\* session id S, a request goes to exactly baseURL/session/S/element/E/<suffix>
\* (whenever the base URL is one a request can be made to), with nothing
\* appended; CSSProperty(name) requests baseURL/session/S/element/E/css/name.
C19_ElementURL ==
    (last.op \in elementOps /\ ~parseFails(last.pre.executor)) =>
        /\ last.req.sent
        /\ text(last.req.url) =
              text(last.pre.executor) \o "/session/" \o text(last.pre.id)
                  \o "/element/" \o text(last.on.id) \o elementSuffix(last)

\* the number of exchanges of the call: its requests that are not redirect hops
exchanges(c) == Cardinality({i \in 1..Len(c.reqs) : c.reqs[i].hop = 0})

\* C20: each client operation issues exactly one HTTP exchange (none only
\* when no request could be built), redirect hops aside, and when the exchange
\* fails the operation returns the failure to its caller without sending any
\* further request.
C20_OneExchangeFailureReturned ==
    last.op # "none" =>
        /\ exchanges(last) <= 1
        /\ last.req.sent => exchanges(last) = 1
        /\ transportFailed(last) => last.err # NoErr

\* the client of caller c when every caller has a client of its own
own(c) == IF c = 1 THEN wd ELSE wd2

\* the path a method requests on a client whose stored session id is id
pathOf(op, id) ==
    CASE op \in {"NewRemote", "NewSession"} -> "/session"
      [] op = "Quit" -> "/session/" \o text(id)
      [] op = "Title" -> "/session/" \o text(id) \o "/title"
      [] op = "Refresh" -> "/session/" \o text(id) \o "/refresh"

\* C21: under any interleaving of the operations of two callers on two
\* distinct clients, a step that is not a step of a caller's own call leaves
\* that caller's client (session id, base URL, capabilities) as it is, and the
\* request of a call in progress is built from the caller's own client: its
\* URL is that client's base URL and the method's path with that client's
\* session id, whatever the other client's id is.
C21_ClientsIsolated ==
    /\ [][\A c \in Callers : calls'[c] = calls[c] => own(c)' = own(c)]_vars
    /\ [](\A c \in Callers :
            (calls[c].active /\ calls[c].req.sent) =>
                text(calls[c].req.url) =
                    text(IF own(c).exists THEN own(c).executor ELSE DEFAULT_EXECUTOR)
                        \o pathOf(calls[c].op, own(c).id))

\* both callers have a call in progress, each on a session of its own
C21_Witness ==
    /\ calls[1].active /\ calls[1].op = "Title"
    /\ calls[2].active /\ calls[2].op = "Quit"
    /\ wd.id = <<"1">> /\ wd2.id = <<"2">>
    /\ text(calls[1].req.url) = "http://127.0.0.1:4444/wd/hub/session/1/title"
    /\ text(calls[2].req.url) = "http://127.0.0.1:4444/wd/hub/session/2"

\* the call of last made on the same client with the session id "1" stored
withSession(c) ==
    IF c.op = "Quit"
    THEN Quit([c.pre EXCEPT !.id = <<"1">>], c.srv)
    ELSE command(c.op, [c.pre EXCEPT !.id = <<"1">>], c.arg, c.srv)

\* a token string without the tokens that are t
without(tokens, t) == SelectSeq(tokens, LAMBDA x : x # t)

C25_ValueReturned ==
    (/\ transportSucceeded(last)
     /\ last.res.Body.k = "object"
     /\ envelopeStatus(last.res.Body) = 0) =>
        /\ (last.op \in stringOps /\ valueOf(last.res.Body).t = "str") =>
              /\ last.err = NoErr /\ ~last.panic
              /\ last.ret = valueOf(last.res.Body).s
        /\ (last.op \in {"ExecuteScript", "ExecuteScriptAsync"}
              /\ valueOf(last.res.Body).t # "absent") =>
              /\ last.err = NoErr /\ ~last.panic
              /\ last.ret = valueOf(last.res.Body)

\* Title was answered {"status": 0, "value": "foo"} and returned "foo"
C25_Witness ==
    /\ last.op = "Title"
    /\ transportSucceeded(last)
    /\ last.res.Body.k = "object"
    /\ last.res.Body.status = JNum(0)
    /\ valueOf(last.res.Body) = JStr(<<"foo">>)
    /\ last.ret = <<"foo">>
    /\ last.err = NoErr

\* C29: every operation other than NewSession and Quit leaves the stored
\* session id of the client unchanged, whether it succeeds or fails, and no
\* operation at all, NewSession and Quit included, changes the base URL or the
\* capabilities of a client once it is constructed.
C29_FrameOfClient ==
    [][/\ (wd.exists /\ last'.op \notin {"NewSession", "Quit"}) => wd'.id = wd.id
       /\ wd.exists =>
            /\ wd'.exists
            /\ wd'.executor = wd.executor
            /\ wd'.capabilities = wd.capabilities]_vars

\* Refresh failed on an open session and the client is as it was before
C29_Witness ==
    /\ last.op = "Refresh"
    /\ last.err # NoErr
    /\ last.req.sent
    /\ last.pre.id = <<"1">>
    /\ wd = last.pre

\* C24: for every request and every server reply, execute returns the same
\* result, the same payload or the same error, whether Trace is on or off:
\* dumping the request and the response changes neither the branch taken nor
\* the bytes returned, nor the requests that go out.
C24_TraceObservational ==
    (last.op = "execute" /\ last.req.sent) =>
        /\ requested(TRUE, newRequest(last.req.method, last.req.url, last.req.data), last.srv)
             = requested(FALSE, newRequest(last.req.method, last.req.url, last.req.data), last.srv)
        /\ \A t \in BOOLEAN :
             /\ requested(t, newRequest(last.req.method, last.req.url, last.req.data),
                          last.srv).buf = last.buf
             /\ requested(t, newRequest(last.req.method, last.req.url, last.req.data),
                          last.srv).err = last.err

\* execute ran with Trace on, posted a body and returned the payload it read
C24_Witness ==
    /\ last.op = "execute"
    /\ last.arg.trace
    /\ last.req.sent
    /\ last.req.method = "POST"
    /\ last.req.data # NoData
    /\ last.err = NoErr
    /\ last.buf = ObjectBody(JAbsent, JNum(SUCCESS), JStr(<<"foo">>))

\* the reply of the call echoes the capabilities of the client as they were
\* encoded in its session-open request
echoed(c) ==
    /\ c.op = "Capabilities"
    /\ transportSucceeded(c)
    /\ c.res.Body.k = "object"
    /\ valueOf(c.res.Body) = JMap(marshalMessage(c.pre.capabilities).data.desiredCapabilities)

\* C26: round trip: for every capability mapping with JSON-representable
\* scalar and string values, encoding it in the session-open request and
\* decoding a server reply that echoes it as the capabilities value yields a
\* mapping equal to the original.
C26_CapabilitiesRoundTrip ==
    echoed(last) => (last.err = NoErr /\ last.ret = last.pre.capabilities)

\* what does hold of C26: the round trip returns without error a mapping with
\* the names of the original, every string, bool, nil and float64 value equal
\* to the original (browserName among them), and a float64 for every int
C26_RoundTripButInt ==
    echoed(last) =>
        /\ last.err = NoErr
        /\ DOMAIN last.ret = DOMAIN last.pre.capabilities
        /\ \A key \in DOMAIN last.ret :
             IF last.pre.capabilities[key].t = "go"
             THEN last.ret[key] = GoNum("float64", last.pre.capabilities[key].n)
             ELSE last.ret[key] = last.pre.capabilities[key]

\* the capabilities with version int 3 came back with version float64 3
C26_IntComesBackFloat ==
    /\ echoed(last)
    /\ last.pre.capabilities.version = GoNum("int", 3)
    /\ last.ret.version = GoNum("float64", 3)
    /\ last.ret.browserName = JStr(<<"firefox">>)

\* the methods of a handle that ask the server about its element
queries == ElementCommands \ {"remoteWE.FindElement"}

C30_HandleFollowsSession ==
    (last.op \in ElementCommands /\ last.req.sent) =>
        HasPrefix(last.req.url,
                  last.pre.executor \o <<"/session/">> \o last.pre.id
                      \o <<"/element/">> \o last.on.id)

\* the handle was decoded in session 1; the client has quit and opened
\* session 2, and Click and IsEnabled on the handle go to session 2
C30_Witness ==
    /\ born = <<"1">>
    /\ wd.id = <<"2">>
    /\ opened
    /\ last.op = "remoteWE.IsEnabled"
    /\ last.on = we
    /\ last.req.sent
    /\ text(last.req.url) = "http://127.0.0.1:4444/wd/hub/session/2/element/e1/enabled"

\* execute hop by hop returns what execute returns
hopsAgree ==
    run.returned => run.result = execute(run.method, run.u, NoData, run.srv)

\* C28: every execute call terminates: given that each HTTP hop eventually
\* gets a response or a connection error, the call eventually returns a
\* payload or an error, even when the server answers every request with a
\* redirect.
C28_ExecuteTerminates == run.active ~> (~run.active /\ run.returned)

\* execute returned from a server that redirects every request: the error of
\* the refused redirect, after ten requests
C28_Witness ==
    /\ run.returned
    /\ run.srv.redirects = MaxChain + 1
    /\ run.result.err = URLError("stopped after 10 redirects")
    /\ Len(run.result.reqs) = maxRedirects

\* what the method of the client or of the handle returns that the facade
\* method of the call stands for
underlying(c) ==
    IF c.op \in ElementCommands
    THEN elementCommand(c.op, c.on, c.pre, c.arg, c.srv)
    ELSE command(c.op, c.pre, c.arg, c.srv)

\* C27: every WebDriverT and WebElementT facade method calls the underlying
\* operation exactly once (the requests sent and the client left behind are
\* those of one call), halts the test through Fatalf if and only if that
\* operation returned an error, and otherwise returns the value of the
\* operation unchanged, found elements wrapped one to one and in the same
\* order.
C27_FacadeFailsFast ==
    last.op \notin {"none", "NewRemote"} =>
        /\ last.reqs = underlying(last).reqs
        /\ wd = underlying(last).wd
        /\ last.fatal <=> (underlying(last).err # NoErr /\ ~underlying(last).panic)
        /\ (~last.fatal /\ ~last.panic) =>
             CASE last.op \in {"FindElement", "remoteWE.FindElement"} ->
                     last.ret.e = underlying(last).ret
               [] last.op = "FindElements" ->
                     /\ Len(last.ret) = Len(underlying(last).ret)
                     /\ \A i \in 1..Len(last.ret) : last.ret[i].e = underlying(last).ret[i]
               [] OTHER -> last.ret = underlying(last).ret

\* Title of the facade: the one request failed and the test was halted
C27_Witness ==
    /\ last.op = "Title"
    /\ last.fatal
    /\ last.err # NoErr
    /\ exchanges(last) = 1
    /\ Len(last.reqs) = 1

\* FindElements of the facade wrapped the two handles in the order of the reply
wrappedInOrder ==
    /\ last.op = "FindElements"
    /\ ~last.fatal
    /\ Len(last.ret) = 2
    /\ last.ret[1].e = remoteWE("wd", <<"e2">>)
    /\ last.ret[2].e = remoteWE("wd", <<"e1">>)

\* C31: NewSession on a client that already holds a non-empty session id
\* replaces the stored id with the new one on success and issues no
\* termination request for the previous session: the only request it sends is
\* the POST to /session.
C31_NewSessionOverOpenSession ==
    (last.op = "NewSession" /\ last.pre.id # <<>>) =>
        /\ Len(last.reqs) <= 1
        /\ \A i \in 1..Len(last.reqs) :
             /\ last.reqs[i].method = "POST"
             /\ last.reqs[i].url = last.pre.executor \o <<"/session">>
        /\ (last.req.sent /\ last.sendErr = NoErr /\ ~last.panic) =>
             /\ wd.id = last.ret
             /\ last.res.Body.k = "object" =>
                  wd.id = stringField(last.res.Body.sessionId)

\* the client held session 1; NewSession sent its one POST and stored 2
C31_Witness ==
    /\ last.op = "NewSession"
    /\ last.pre.id = <<"1">>
    /\ wd.id = <<"2">>
    /\ Len(last.reqs) = 1
    /\ last.req.method = "POST"
    /\ text(last.req.url) = "http://127.0.0.1:4444/wd/hub/session"

(***************************************************************************)
(* Names and ids in paths: the caller passes names of its own choosing and *)
(* the server chooses the ids of the elements, so either may hold a "%"    *)
(* followed by a letter                                                    *)
(***************************************************************************)
\* a plain name, a bare verb, and an escaped byte whose first digit is a verb
Names == {<<"a">>, <<"%", "s">>, <<"%", "d", "1">>}

\* the caller calls a method of its client that takes a name, or Close
DoNamed ==
    /\ wd.exists
    /\ \E op \in {"Close", "CloseWindow", "DeleteCookie"} :
         \E name \in (IF op = "Close" THEN {<<>>} ELSE Names), srv \in ServersFor(op) :
             \E r \in {command(op, wd, name, srv)} : Done(op, srv, r, NoElem, name)

\* the caller calls a method of an element whose id the server chose
DoNamedElement ==
    /\ wd.exists
    /\ \E op \in {"remoteWE.Click", "remoteWE.GetAttribute", "remoteWE.CSSProperty"} :
         \E id \in Names, srv \in ServersFor(op),
            name \in (IF op = "remoteWE.Click" THEN {<<>>} ELSE Names) :
             \E r \in {elementCommand(op, remoteWE("wd", id), wd, name, srv)} :
                 Done(op, srv, r, remoteWE("wd", id), name)

SpecNames ==
    Init /\ [][\/ NewRemoteAgainst(CapsSet, {<<>>}, Servers)
               \/ DoNamed
               \/ DoNamedElement]_vars

\* the URL of the call with the session id, the element id and the name each
\* put unchanged into its own segment
verbatim(c) ==
    c.pre.executor \o <<"/session/">> \o c.pre.id
        \o (CASE c.op = "remoteWE.Click" -> <<"/element/">> \o c.on.id \o <<"/click">>
              [] c.op = "remoteWE.GetAttribute" ->
                    <<"/element/">> \o c.on.id \o <<"/attribute/">> \o c.arg
              [] c.op = "remoteWE.CSSProperty" ->
                    <<"/element/">> \o c.on.id \o <<"/css/">> \o c.arg
              [] c.op = "DeleteCookie" -> <<"/cookie/">> \o c.arg
              [] OTHER -> <<"/window">>)

\* C33: substitution into a path template is verbatim: for every element id
\* and every name, also one that holds a percent sign followed by a format
\* letter, the command makes the request it would make for the path with the
\* id and the name unchanged, the session id being in the session segment
\* only; a request for a style property that goes out has that path too.
C33_VerbatimSubstitution ==
    /\ last.op \in {"remoteWE.Click", "remoteWE.GetAttribute", "DeleteCookie"} =>
           last.req = execute(IF last.op = "remoteWE.Click" THEN "POST"
                              ELSE IF last.op = "DeleteCookie" THEN "DELETE" ELSE "GET",
                              verbatim(last), NoData, last.srv).req
    /\ (last.op = "remoteWE.CSSProperty" /\ last.req.sent) =>
           last.req.url = verbatim(last)

\* C34: the request CloseWindow(name) sends depends on name: it is not the
\* request Close sends, DELETE baseURL/session/S/window, for every name.
C34_CloseWindowByName ==
    (last.op = "CloseWindow" /\ last.req.sent) =>
        \E name \in Names :
            command("CloseWindow", last.pre, name, last.srv).req
                # command("Close", last.pre, <<>>, last.srv).req

(***************************************************************************)
(* Two callers and one client: both call methods of wd with nothing that   *)
(* orders a read of wd.id in one call with the assignment to wd.id in the  *)
(* other.  A call reads the id when it formats its URL and assigns it, in  *)
(* NewSession and Quit, when its exchange is over.                         *)
(***************************************************************************)
\* what a read of wd.id by caller c may give.  NewSession (line 301) and
\* Quit (line 380) assign the field without a lock, so a read made while
\* another caller has one of them in progress is not ordered with that
\* assignment: it gives the id stored, the id being assigned, or, a string
\* being a pointer and a length, the pointer of one with the length of the
\* other ("?")
idRead(c) ==
    {wd.id}
    \cup UNION {IF calls[o].active /\ calls[o].op \in {"NewSession", "Quit"}
                THEN {x \in {left(calls[o].op, wd,
                                  performed(calls[o].op, calls[o].pre, calls[o].srv)).id,
                             <<"?">>} :
                        left(calls[o].op, wd,
                             performed(calls[o].op, calls[o].pre, calls[o].srv)).id # wd.id}
                ELSE {} : o \in Callers \ {c}}

\* caller c calls a method of the client: the method reads wd.id and formats
\* its URL (lines 228, 244, 377; NewSession, line 297, reads no id);
\* CSSProperty of element e1 formats its template with the id (line 836) and
\* stringCommand is still to come
BeginShared(c) ==
    /\ wd.exists /\ ~calls[c].active
    /\ \E op \in {"NewSession", "Quit", "Title", "Refresh", "remoteWE.CSSProperty"},
          id \in idRead(c) :
       \E srv \in (IF op \in {"NewSession", "Quit"} THEN SessionServers ELSE {Reply(JNull)}) :
         calls' = [calls EXCEPT ![c] =
                      [active |-> TRUE, op |-> op, srv |-> srv,
                       pre |-> [wd EXCEPT !.id = id],
                       built |-> op # "remoteWE.CSSProperty",
                       url |-> IF op = "remoteWE.CSSProperty"
                               THEN Sprintf(<<"/session/", "%", "s", "/element/", "%", "s",
                                              "/css/", "%", "s">>,
                                            <<id, <<"e1">>, <<"color">>>>)
                               ELSE performed(op, [wd EXCEPT !.id = id], srv).req.url]]
    /\ UNCHANGED <<wd, last, opened, we, Trace, wd2, run, born>>

\* stringCommand, called by CSSProperty of caller c with the path it
\* formatted, reads wd.id and formats the path again (line 228)
FormatAgain(c) ==
    /\ calls[c].active /\ ~calls[c].built
    /\ \E id \in idRead(c) :
         calls' = [calls EXCEPT ![c].built = TRUE,
                                ![c].url = url(wd, calls[c].url, <<id>>)]
    /\ UNCHANGED <<wd, last, opened, we, Trace, wd2, run, born>>

\* the method of caller c returns: NewSession and Quit assign wd.id
ReturnShared(c) ==
    /\ calls[c].active /\ calls[c].built
    /\ wd' = IF calls[c].op \in {"NewSession", "Quit"}
             THEN left(calls[c].op, wd, performed(calls[c].op, calls[c].pre, calls[c].srv))
             ELSE wd
    /\ calls' = [calls EXCEPT ![c] = [active |-> FALSE]]
    /\ UNCHANGED <<last, opened, we, Trace, wd2, run, born>>

SpecShared ==
    Init /\ [][\/ NewRemoteAgainst({[browserName |-> JStr(<<"firefox">>)]}, {<<>>},
                                   SessionServers)
               \/ \E c \in Callers : BeginShared(c) \/ FormatAgain(c) \/ ReturnShared(c)]_vars

\* the URL a method builds on a client whose stored session id is id
builtFrom(op, w, srv) ==
    IF op = "remoteWE.CSSProperty"
    THEN url(w, Sprintf(<<"/session/", "%", "s", "/element/", "%", "s", "/css/", "%", "s">>,
                        <<w.id, <<"e1">>, <<"color">>>>),
             <<w.id>>)
    ELSE performed(op, w, srv).req.url

\* C32: when two callers use one client without synchronization, each command
\* reads the stored session id once, while it builds its URL: the URL of the
\* request it has built is the one of the id it read when it began, and a
\* Quit or NewSession of the other caller that completes after that read
\* changes neither the URL being built nor the URL in flight.
C32_IdReadOnce ==
    /\ [](\A c \in Callers :
            (calls[c].active /\ calls[c].built) =>
                calls[c].url = builtFrom(calls[c].op, calls[c].pre, calls[c].srv))
    /\ [][\A c \in Callers :
            (calls[c].active /\ calls[c].built /\ calls'[c].active) =>
                calls'[c].url = calls[c].url]_vars

====
